---- MODULE Spec2Model ----
(***************************************************************************)
(* A model of the quale compiler's middle end: the AST (src/src/ast.rs),   *)
(* the name mangler (src/src/mangle.rs, src/src/utils.rs) and the type     *)
(* inference engine (src/src/inference.rs, src/src/types.rs).              *)
(*                                                                         *)
(* Names.  An identifier is a Rust String.  It is modelled as the sequence *)
(* of its `$`-free segments: <<"a">> is "a" and <<"M", "a">> is "M$a".     *)
(* `p + "$" + n` is <<p>> \o n and `n.contains('$')` is Len(n) > 1.        *)
(*                                                                         *)
(* Expressions.  Expr is a closed sum (ast.rs:603); every node is a record *)
(* with the same fields so that any two nodes can be compared:             *)
(*   tag   "Var" | "Literal" | "BinaryExpr" | "Tensor" | "FnCall" | "Let"  *)
(*         | "Conditional"                                                 *)
(*   name  the variable's / let's / callee's name; <<"digit">> or          *)
(*         <<"qbit">> for a literal; the opcode for a binary expression    *)
(*   ty    VarAST.type_ (Var, Let), FunctionAST.output_type (FnCall)       *)
(*   inp   FunctionAST.input_type of a FnCall                              *)
(*   a     lhs | let value | call arguments | tensor elements | condition  *)
(*   b     rhs | truth block                                               *)
(*   c     false block                                                     *)
(***************************************************************************)
EXTENDS Integers, Sequences, FiniteSets, TLC

VARIABLES
    modules,          \* Qast.modules: the program, a sequence of ModuleAST
    mono,             \* the monolith `merge` returned: the shared function cells, as <<module, function>> indices
    merges,           \* how many times `merge` has been applied
    phase,            \* position of the compilation session
    op,               \* the last operation performed, its arguments and its return value
    diags,            \* the diagnostics reported so far, in report order
    imports,          \* the `import` statements seen so far: <<importing module, mod_name, fn_name>>
    declared,         \* the output type each function of the monolith had when `infer` was entered
    function_table,   \* infer's function_table: a set of VarAST
    parameter_table,  \* infer's parameter_table of the function being inferred
    local_var_table,  \* infer's local_var_table of the function being inferred
    fn_idx,           \* the function of the monolith `infer` is at
    instr_idx,        \* the instruction of that function `infer` is at
    seen_errors,      \* infer's seen_errors
    result            \* what `infer` returned: "Ok" or "TypeError" ("none" before it returns)

ast_vars == <<modules, mono, merges>>
infer_vars == <<declared, function_table, parameter_table, local_var_table, fn_idx, instr_idx,
                seen_errors, result>>
vars == <<modules, mono, merges, phase, op, diags, imports, declared, function_table,
          parameter_table, local_var_table, fn_idx, instr_idx, seen_errors, result>>

----------------------------------------------------------------------------
(* Types: src/src/types.rs *)

Bottom == "Bottom"
Bit == "Bit"
Qbit == "Qbit"
Rad == "Rad"
F64 == "F64"

Type == {Bottom, Bit, Qbit, Rad, F64}

\* #[derive(PartialOrd)] on the enum: the declaration order.
TypeOrd(t) ==
    CASE t = Bottom -> 0
      [] t = Bit -> 1
      [] t = Qbit -> 2
      [] t = Rad -> 3
      [] t = F64 -> 4

bigtype_strictly_less(t1, t2) == IF TypeOrd(t1) < TypeOrd(t2) THEN t1 ELSE t2

bigtype(t1, t2) == IF TypeOrd(t1) > TypeOrd(t2) THEN t1 ELSE t2

smalltype(t1, t2) == IF TypeOrd(t1) < TypeOrd(t2) THEN t1 ELSE t2

----------------------------------------------------------------------------
(* AST nodes: src/src/ast.rs *)

Node(tag, name, ty, a, b, c) ==
    [tag |-> tag, name |-> name, ty |-> ty, inp |-> <<>>, a |-> a, b |-> b, c |-> c]

Var(name, ty) == Node("Var", <<name>>, ty, <<>>, <<>>, <<>>)

Digit == Node("Literal", <<"digit">>, Bottom, <<>>, <<>>, <<>>)

QbitLit == Node("Literal", <<"qbit">>, Bottom, <<>>, <<>>, <<>>)

BinaryExpr(lhs, opcode, rhs) == Node("BinaryExpr", <<opcode>>, Bottom, <<lhs>>, <<rhs>>, <<>>)

Tensor(exprs) == Node("Tensor", <<>>, Bottom, exprs, <<>>, <<>>)

\* parse_fn_call (parser.rs:314): a call site holds a fresh FunctionAST with
\* the callee's name, no input types and output type Bottom.
FnCall(name, args) == Node("FnCall", <<name>>, Bottom, args, <<>>, <<>>)

Let(name, ty, val) == Node("Let", <<name>>, ty, <<val>>, <<>>, <<>>)

Conditional(cond, truth_block, false_block) ==
    Node("Conditional", <<>>, Bottom, <<cond>>, truth_block, false_block)

VarAST(name, ty) == [name |-> <<name>>, ty |-> ty]

FunctionAST(name, params, output_type, attrs, body) ==
    [name |-> <<name>>, params |-> params, input_type |-> <<>>,
     output_type |-> output_type, attrs |-> attrs, body |-> body]

ModuleAST(name, functions) == [name |-> name, functions |-> functions]

\* String::contains('$')
ContainsDollar(name) == Len(name) > 1

\* prefix + "$" + name
Dollar(prefix, name) == <<prefix>> \o name

----------------------------------------------------------------------------
(* The name mangler: src/src/mangle.rs, and its copy in src/src/utils.rs *)

RECURSIVE mangle_fns_every(_, _, _)
\* mangle_fns without the peer test: every call is prefixed, as `mangle_expr`
\* (mangle.rs:24) does.
mangle_fns_every(expr, module_name, functions) ==
    LET each(s) == [i \in 1..Len(s) |-> mangle_fns_every(s[i], module_name, functions)]
    IN  CASE expr.tag = "BinaryExpr" -> [expr EXCEPT !.a = each(@), !.b = each(@)]
          [] expr.tag = "Let" -> [expr EXCEPT !.a = each(@)]
          [] expr.tag = "FnCall" ->
                [expr EXCEPT !.a = each(@), !.name = Dollar(module_name, expr.name)]
          [] expr.tag = "Tensor" -> [expr EXCEPT !.a = each(@)]
          [] expr.tag = "Conditional" ->
                [expr EXCEPT !.a = each(@), !.b = each(@), !.c = each(@)]
          [] OTHER -> expr

RECURSIVE mangle_fns(_, _, _)
\* mangle.rs:60.  `functions` is the Vec of the module's function names.
mangle_fns(expr, module_name, functions) ==
    LET each(s) == [i \in 1..Len(s) |-> mangle_fns(s[i], module_name, functions)]
    IN  CASE expr.tag = "BinaryExpr" -> [expr EXCEPT !.a = each(@), !.b = each(@)]
          [] expr.tag = "Let" -> [expr EXCEPT !.a = each(@)]
          [] expr.tag = "FnCall" ->
                LET fn_name == expr.name
                    found == {i \in 1..Len(functions) : functions[i] = fn_name}
                IN  [expr EXCEPT
                        !.a = each(@),
                        !.name = IF found # {} /\ ~ContainsDollar(functions[CHOOSE i \in found : TRUE])
                                 THEN Dollar(module_name, fn_name)
                                 ELSE @]
          [] expr.tag = "Tensor" -> [expr EXCEPT !.a = each(@)]
          [] expr.tag = "Conditional" ->
                [expr EXCEPT !.a = each(@), !.b = each(@), !.c = each(@)]
          [] expr.tag = "Var" -> expr
          [] expr.tag = "Literal" -> expr

RECURSIVE mangle_expr_check(_, _, _)
\* mangle.rs:102
mangle_expr_check(expr, mod_name, fn_name) ==
    LET each(s) == [i \in 1..Len(s) |-> mangle_expr_check(s[i], mod_name, fn_name)]
    IN  CASE expr.tag = "BinaryExpr" -> [expr EXCEPT !.a = each(@), !.b = each(@)]
          [] expr.tag = "Let" -> [expr EXCEPT !.a = each(@)]
          [] expr.tag = "FnCall" ->
                [expr EXCEPT
                    !.a = each(@),
                    !.name = IF expr.name = fn_name THEN Dollar(mod_name, expr.name) ELSE @]
          [] expr.tag = "Tensor" -> [expr EXCEPT !.a = each(@)]
          [] expr.tag = "Conditional" ->
                [expr EXCEPT !.a = each(@), !.b = each(@), !.c = each(@)]
          [] expr.tag = "Var" -> expr
          [] expr.tag = "Literal" -> expr

RECURSIVE utils_mangle_expr_check(_, _, _)
\* utils.rs:111: the same function with `_ => {}` for every other node.
utils_mangle_expr_check(expr, mod_name, fn_name) ==
    LET each(s) == [i \in 1..Len(s) |-> utils_mangle_expr_check(s[i], mod_name, fn_name)]
    IN  CASE expr.tag = "BinaryExpr" -> [expr EXCEPT !.a = each(@), !.b = each(@)]
          [] expr.tag = "Let" -> [expr EXCEPT !.a = each(@)]
          [] expr.tag = "FnCall" ->
                [expr EXCEPT
                    !.a = each(@),
                    !.name = IF expr.name = fn_name THEN Dollar(mod_name, expr.name) ELSE @]
          [] OTHER -> expr

\* mangle.rs:143: every instruction of every function of the module.
mangle_module(module, mod_name, fn_name) ==
    [module EXCEPT !.functions =
        [i \in 1..Len(module.functions) |->
            [module.functions[i] EXCEPT !.body =
                [k \in 1..Len(module.functions[i].body) |->
                    mangle_expr_check(module.functions[i].body[k], mod_name, fn_name)]]]]

\* utils.rs:136
utils_mangle_module(module, mod_name, fn_name) ==
    [module EXCEPT !.functions =
        [i \in 1..Len(module.functions) |->
            [module.functions[i] EXCEPT !.body =
                [k \in 1..Len(module.functions[i].body) |->
                    utils_mangle_expr_check(module.functions[i].body[k], mod_name, fn_name)]]]]

----------------------------------------------------------------------------
(* Qast and ModuleAST operations: src/src/ast.rs *)

\* ast.rs:111: the names of the module's functions, collected before renaming.
FunctionNames(module) == [i \in 1..Len(module.functions) |-> module.functions[i].name]

\* ast.rs:117-124: the body of the closure, for one module.
MergeModule(module) ==
    LET module_name == module.name
        functions == FunctionNames(module)
    IN  [module EXCEPT !.functions =
            [i \in 1..Len(module.functions) |->
                [module.functions[i] EXCEPT
                    !.name = Dollar(module_name, module.functions[i].name),
                    !.body = [k \in 1..Len(module.functions[i].body) |->
                                mangle_fns(module.functions[i].body[k], module_name, functions)]]]]

RECURSIVE FlatMap_backwards(_, _)
\* flat_map collecting the modules last to first.
FlatMap_backwards(ms, k) ==
    IF k > Len(ms)
    THEN <<>>
    ELSE FlatMap_backwards(ms, k + 1) \o [i \in 1..Len(ms[k].functions) |-> <<k, i>>]

RECURSIVE FlatMap(_, _)
\* ast.rs:107-128: flat_map over the modules in order, each yielding its
\* `functions.clone()`: the function cells of module k, in order.
FlatMap(ms, k) ==
    IF k > Len(ms)
    THEN <<>>
    ELSE [i \in 1..Len(ms[k].functions) |-> <<k, i>>] \o FlatMap(ms, k + 1)

\* ast.rs:103: `merge` renames in place and returns the monolith `Main`,
\* whose functions are the very cells of the program's modules.
MergeProgram(ms) == [k \in 1..Len(ms) |-> MergeModule(ms[k])]

Cell(ms, ref) == ms[ref[1]].functions[ref[2]]

\* `merge` applied to the monolith: one module named "Main" holding `cells`.
MergeMonolith(ms, cells) ==
    LET module_name == "Main"
        functions == [j \in 1..Len(cells) |-> Cell(ms, cells[j]).name]
        held(k, i) == \E j \in 1..Len(cells) : cells[j] = <<k, i>>
    IN  [k \in 1..Len(ms) |->
            [ms[k] EXCEPT !.functions =
                [i \in 1..Len(ms[k].functions) |->
                    IF held(k, i)
                    THEN [ms[k].functions[i] EXCEPT
                            !.name = Dollar(module_name, ms[k].functions[i].name),
                            !.body = [n \in 1..Len(ms[k].functions[i].body) |->
                                        mangle_fns(ms[k].functions[i].body[n], module_name, functions)]]
                    ELSE ms[k].functions[i]]]]

\* append_function without the name test: the function is always pushed.
append_function_unchecked(module, other) ==
    [ret |-> "Ok", module |-> [module EXCEPT !.functions = Append(@, other)]]

\* ast.rs:196
append_function(module, other) ==
    IF \E i \in 1..Len(module.functions) : module.functions[i].name = other.name
    THEN [ret |-> "RedefinedFunction", module |-> module]
    ELSE [ret |-> "Ok", module |-> [module EXCEPT !.functions = Append(@, other)]]

\* ast.rs:92
append_module(ms, module) == Append(ms, module)

----------------------------------------------------------------------------
(* Type inference: src/src/inference.rs, and Expr::get_type of ast.rs *)

\* Option<Type>::None
None == "None"

RECURSIVE get_type(_)
\* ast.rs:636
get_type(expr) ==
    CASE expr.tag = "Var" -> expr.ty
      [] expr.tag = "BinaryExpr" ->
            LET lhs_type == get_type(expr.a[1])
                rhs_type == get_type(expr.b[1])
            IN  IF lhs_type = rhs_type
                THEN lhs_type
                ELSE IF (lhs_type = Qbit /\ rhs_type = F64) \/ (lhs_type = F64 /\ rhs_type = Qbit)
                THEN Qbit
                ELSE Bottom
      [] expr.tag = "Tensor" -> IF Len(expr.a) = 0 THEN Bottom ELSE get_type(expr.a[1])
      [] expr.tag = "FnCall" -> expr.ty
      [] expr.tag = "Let" -> expr.ty
      [] expr.tag = "Conditional" ->
            IF Len(expr.b) = 0 THEN Bottom ELSE get_type(expr.b[Len(expr.b)])
      [] expr.tag = "Literal" -> IF expr.name = <<"digit">> THEN F64 ELSE Qbit

\* inference.rs:362-371, the type of a binary expression from its operands'
infer_binary(lhs_type, rhs_type) ==
    IF (lhs_type = F64 /\ rhs_type = Qbit) \/ (lhs_type = Qbit /\ rhs_type = F64)
    THEN bigtype(lhs_type, rhs_type)
    ELSE IF lhs_type # rhs_type
    THEN None
    ELSE lhs_type

RECURSIVE infer_expr(_)
RECURSIVE infer_until_none(_, _)
RECURSIVE infer_until_differs(_, _, _)
RECURSIVE infer_block(_, _, _)

\* `for v in s { infer_expr(v)? }` from element k on (inference.rs:375-380,
\* 400-403): the elements as inference leaves them, the types found before
\* the loop ended, and whether it ran to its end.
infer_until_none(s, k) ==
    IF k > Len(s)
    THEN [s |-> s, tys |-> <<>>, ok |-> TRUE]
    ELSE LET h == infer_expr(s[k])
         IN  IF h.r = None
             THEN [s |-> [s EXCEPT ![k] = h.e], tys |-> <<>>, ok |-> FALSE]
             ELSE LET rest == infer_until_none([s EXCEPT ![k] = h.e], k + 1)
                  IN  [s |-> rest.s, tys |-> <<h.r>> \o rest.tys, ok |-> rest.ok]

\* `for v in s { if infer_expr(v)? != ty { return None } }` (inference.rs:387-392)
infer_until_differs(s, k, ty) ==
    IF k > Len(s)
    THEN [s |-> s, ok |-> TRUE]
    ELSE LET h == infer_expr(s[k])
         IN  IF h.r = None \/ h.r # ty
             THEN [s |-> [s EXCEPT ![k] = h.e], ok |-> FALSE]
             ELSE infer_until_differs([s EXCEPT ![k] = h.e], k + 1, ty)

\* `for e in block { block_type = infer_expr(e) }` (inference.rs:430-438)
infer_block(s, k, block_type) ==
    IF k > Len(s)
    THEN [s |-> s, r |-> block_type]
    ELSE LET h == infer_expr(s[k])
         IN  infer_block([s EXCEPT ![k] = h.e], k + 1, h.r)

\* inference.rs:343.  The result is the expression as the call leaves it
\* (e) and the Option<Type> returned (r).
infer_expr(expr) ==
    CASE expr.tag = "Var" ->
            [e |-> expr, r |-> IF expr.ty = Bottom THEN None ELSE expr.ty]
      [] expr.tag = "BinaryExpr" ->
            LET lhs == infer_expr(expr.a[1])
            IN  IF lhs.r = None
                THEN [e |-> [expr EXCEPT !.a = <<lhs.e>>], r |-> None]
                ELSE LET rhs == infer_expr(expr.b[1])
                         done == [expr EXCEPT !.a = <<lhs.e>>, !.b = <<rhs.e>>]
                     IN  IF rhs.r = None
                         THEN [e |-> done, r |-> None]
                         ELSE [e |-> done, r |-> infer_binary(lhs.r, rhs.r)]
      [] expr.tag = "Tensor" ->
            LET first == infer_until_none(expr.a, 1)
            IN  IF ~first.ok
                THEN [e |-> [expr EXCEPT !.a = first.s], r |-> None]
                ELSE LET tensor_type == IF Len(first.s) > 0 THEN get_type(first.s[1]) ELSE Bottom
                         second == infer_until_differs(first.s, 1, tensor_type)
                     IN  [e |-> [expr EXCEPT !.a = second.s],
                          r |-> IF second.ok THEN tensor_type ELSE None]
      [] expr.tag = "FnCall" ->
            IF expr.ty = Bottom /\ Len(expr.a) # 0
            THEN LET args == infer_until_none(expr.a, 1)
                     done == [expr EXCEPT !.a = args.s, !.inp = @ \o args.tys]
                 IN  [e |-> done, r |-> IF args.ok THEN expr.ty ELSE None]
            ELSE [e |-> expr, r |-> expr.ty]
      [] expr.tag = "Let" ->
            LET val == infer_expr(expr.a[1])
            IN  IF expr.ty = Bottom
                THEN IF val.r = None
                     THEN [e |-> [expr EXCEPT !.a = <<val.e>>], r |-> None]
                     ELSE [e |-> [expr EXCEPT !.a = <<val.e>>, !.ty = val.r], r |-> val.r]
                ELSE [e |-> [expr EXCEPT !.a = <<val.e>>],
                      r |-> IF val.r = None \/ expr.ty # val.r THEN None ELSE expr.ty]
      [] expr.tag = "Conditional" ->
            LET truth == infer_block(expr.b, 1, Bottom)
                false == infer_block(expr.c, 1, Bottom)
            IN  [e |-> [expr EXCEPT !.b = truth.s, !.c = false.s],
                 r |-> IF truth.r = false.r THEN truth.r ELSE Bottom]
      [] expr.tag = "Literal" ->
            [e |-> expr, r |-> IF expr.name = <<"digit">> THEN F64 ELSE Qbit]

\* A SymbolTable is a HashSet<VarAST> (inference.rs:9).  A lookup walks the
\* set and keeps a typed entry of the wanted name: which one, when several
\* entries carry the name, depends on the set's iteration order.  An order
\* is modelled by what it makes the lookups see: a map from each name with a
\* typed entry to the type of one of its typed entries.
Orders(table) ==
    LET names == {v.name : v \in {w \in table : w.ty # Bottom}}
    IN  {f \in [names -> Type \ {Bottom}] : \A n \in names : [name |-> n, ty |-> f[n]] \in table}

Lookup(order, name) == IF name \in DOMAIN order THEN order[name] ELSE Bottom

\* Option<Result<QccCell<Expr>>>: None, Some(Ok(expr)) for an untyped
\* residual named `name`, Some(Err(TypeMismatch)).
Typed == [k |-> "None", name |-> <<>>]
Untyped(name) == [k |-> "Untyped", name |-> name]
Mismatch == [k |-> "Mismatch", name |-> <<>>]

RECURSIVE infer_from_table(_, _, _, _)
RECURSIVE table_until_some(_, _, _, _, _)

\* `for v in s { let info = infer_from_table(v, ..); if info.is_some() { return info } }`
table_until_some(s, k, param_st, local_st, function_st) ==
    IF k > Len(s)
    THEN [s |-> s, r |-> Typed]
    ELSE LET h == infer_from_table(s[k], param_st, local_st, function_st)
         IN  IF h.r.k # "None"
             THEN [s |-> [s EXCEPT ![k] = h.e], r |-> h.r]
             ELSE table_until_some([s EXCEPT ![k] = h.e], k + 1, param_st, local_st, function_st)

\* inference.rs:499.  param_st, local_st and function_st are the tables as
\* their iteration orders present them (see Orders).
infer_from_table(expr, param_st, local_st, function_st) ==
    CASE expr.tag = "Var" ->
            LET param_type == Lookup(param_st, expr.name)
                local_type == Lookup(local_st, expr.name)
            IN  IF param_type = local_type /\ param_type = Bottom
                THEN [e |-> expr, r |-> Untyped(expr.name)]
                ELSE IF param_type # Bottom
                THEN [e |-> [expr EXCEPT !.ty = param_type], r |-> Typed]
                ELSE [e |-> [expr EXCEPT !.ty = local_type], r |-> Typed]
      [] expr.tag = "BinaryExpr" ->
            LET lhs == infer_from_table(expr.a[1], param_st, local_st, function_st)
            IN  IF lhs.r.k # "None"
                THEN [e |-> [expr EXCEPT !.a = <<lhs.e>>], r |-> lhs.r]
                ELSE LET rhs == infer_from_table(expr.b[1], param_st, local_st, function_st)
                     IN  [e |-> [expr EXCEPT !.a = <<lhs.e>>, !.b = <<rhs.e>>], r |-> rhs.r]
      [] expr.tag = "Tensor" ->
            LET vals == table_until_some(expr.a, 1, param_st, local_st, function_st)
            IN  [e |-> [expr EXCEPT !.a = vals.s], r |-> vals.r]
      [] expr.tag = "FnCall" ->
            LET args == table_until_some(expr.a, 1, param_st, local_st, function_st)
                func == Lookup(function_st, expr.name)
            IN  IF args.r.k # "None"
                THEN [e |-> [expr EXCEPT !.a = args.s], r |-> args.r]
                ELSE IF func # Bottom
                THEN [e |-> [expr EXCEPT !.a = args.s, !.ty = func], r |-> Typed]
                ELSE [e |-> [expr EXCEPT !.a = args.s], r |-> Untyped(expr.name)]
      [] expr.tag = "Let" ->
            LET rhs == infer_from_table(expr.a[1], param_st, local_st, function_st)
                var_type == expr.ty
                val_type == get_type(rhs.e)
                done == [expr EXCEPT !.a = <<rhs.e>>]
            IN  IF rhs.r.k # "None"
                THEN [e |-> done, r |-> rhs.r]
                ELSE IF var_type = Bottom
                THEN [e |-> [done EXCEPT !.ty = val_type], r |-> Typed]
                ELSE IF /\ var_type \in {Qbit, Bit}
                        /\ val_type \in {Qbit, Bit}
                        /\ var_type # val_type
                THEN [e |-> done, r |-> Typed]
                ELSE IF var_type = val_type
                THEN [e |-> done, r |-> Typed]
                ELSE [e |-> done, r |-> Mismatch]
      [] expr.tag = "Conditional" ->
            LET truth == table_until_some(expr.b, 1, param_st, local_st, function_st)
            IN  IF truth.r.k # "None"
                THEN [e |-> [expr EXCEPT !.b = truth.s], r |-> truth.r]
                ELSE LET false == table_until_some(expr.c, 1, param_st, local_st, function_st)
                     IN  [e |-> [expr EXCEPT !.b = truth.s, !.c = false.s], r |-> false.r]
      [] expr.tag = "Literal" -> [e |-> expr, r |-> Typed]

----------------------------------------------------------------------------
(* The session up to the monolith: parsing builds the program through       *)
(* append_module / append_function, each `import` is resolved and mangled,  *)
(* and `merge` folds the modules into `Main`.                               *)

MaxModules == 2
MaxImports == 1
MaxMerges == 2

ModuleNames == {"A", "B"}

\* b(u())
CallBody == << FnCall("b", << FnCall("u", <<>>) >>) >>

\* let x = a() + [b()];  if a() { b() } else { u() }
NestedBody ==
    << Let("x", Bottom, BinaryExpr(FnCall("a", <<>>), "Add", Tensor(<< FnCall("b", <<>>) >>))),
       Conditional(FnCall("a", <<>>), << FnCall("b", <<>>) >>, << FnCall("u", <<>>) >>) >>

\* The functions the parser hands to append_function.
ParsedFunctions ==
    { FunctionAST(n, <<>>, Bottom, <<>>, body) : n \in {"a", "b"}, body \in {CallBody, NestedBody} }

NoOp == [kind |-> "none", m |-> 0, mod_name |-> "", fn_name |-> <<>>, impl |-> "", ret |-> "Ok"]

\* A reported diagnostic: its kind, the name it is about, the function being
\* inferred and the place that reported it.
Diag(kind, name, fn, site) == [kind |-> kind, name |-> name, fn |-> fn, site |-> site]

InferIdle ==
    /\ declared = <<>>
    /\ function_table = {}
    /\ parameter_table = {}
    /\ local_var_table = {}
    /\ fn_idx = 0
    /\ instr_idx = 0
    /\ seen_errors = FALSE
    /\ result = "none"

Init ==
    /\ modules = <<>>
    /\ mono = <<>>
    /\ merges = 0
    /\ phase = "parse"
    /\ op = NoOp
    /\ diags = <<>>
    /\ imports = <<>>
    /\ InferIdle

\* Qast::append_module, ast.rs:92
AppendModule(name) ==
    /\ phase = "parse"
    /\ Len(modules) < MaxModules
    /\ modules' = append_module(modules, ModuleAST(name, <<>>))
    /\ op' = [NoOp EXCEPT !.kind = "append_module", !.mod_name = name]
    /\ UNCHANGED <<mono, merges, phase, diags, imports, infer_vars>>

\* ModuleAST::append_function, ast.rs:196
AppendFunction(m, other) ==
    /\ phase = "parse"
    /\ m \in 1..Len(modules)
    /\ LET r == append_function(modules[m], other)
       IN  /\ modules' = [modules EXCEPT ![m] = r.module]
           /\ op' = [NoOp EXCEPT !.kind = "append_function", !.m = m,
                                 !.fn_name = other.name, !.ret = r.ret]
    /\ UNCHANGED <<mono, merges, phase, diags, imports, infer_vars>>

HasModule(ms, mod_name) == \E k \in 1..Len(ms) : ms[k].name = mod_name

HasFunction(ms, mod_name, fn_name) ==
    \E k \in 1..Len(ms) :
        /\ ms[k].name = mod_name
        /\ \E i \in 1..Len(ms[k].functions) : ms[k].functions[i].name = fn_name

\* mangle_module(module m, mod_name, fn_name).  The repository holds two
\* definitions of it, mangle.rs:143 and utils.rs:136; `impl` is the one the
\* caller links.
MangleModule(m, mod_name, fn_name, impl) ==
    /\ modules' = [modules EXCEPT ![m] =
                      IF impl = "mangle.rs"
                      THEN mangle_module(@, mod_name, fn_name)
                      ELSE utils_mangle_module(@, mod_name, fn_name)]
    /\ op' = [NoOp EXCEPT !.kind = "mangle_module", !.m = m, !.mod_name = mod_name,
                          !.fn_name = fn_name, !.impl = impl]

\* `import mod_name::fn_name;` in the file of module m.  The import is
\* validated against the parsed modules; a valid one is handed to
\* mangle_module.
Import(m, mod_name, fn_name, impl) ==
    /\ phase \in {"parse", "resolve"}
    /\ m \in 1..Len(modules)
    /\ Len(imports) < MaxImports
    /\ imports' = Append(imports, <<m, mod_name, fn_name>>)
    /\ phase' = "resolve"
    /\ IF ~HasModule(modules, mod_name)
       THEN /\ diags' = Append(diags, Diag("UnknownModName", <<mod_name>>, <<>>, "import"))
            /\ modules' = modules
            /\ op' = [NoOp EXCEPT !.kind = "import", !.m = m, !.mod_name = mod_name,
                                  !.fn_name = fn_name, !.ret = "UnknownModName"]
       ELSE IF ~HasFunction(modules, mod_name, fn_name)
       THEN /\ diags' = Append(diags, Diag("UnknownImport", fn_name, <<>>, "import"))
            /\ modules' = modules
            /\ op' = [NoOp EXCEPT !.kind = "import", !.m = m, !.mod_name = mod_name,
                                  !.fn_name = fn_name, !.ret = "UnknownImport"]
       ELSE /\ diags' = diags
            /\ MangleModule(m, mod_name, fn_name, impl)
    /\ UNCHANGED <<mono, merges, infer_vars>>

\* Qast::merge on the program, ast.rs:103
Merge ==
    /\ phase \in {"parse", "resolve", "merged"}
    /\ merges < MaxMerges
    /\ modules' = MergeProgram(modules)
    /\ mono' = FlatMap(modules, 1)
    /\ merges' = merges + 1
    /\ phase' = "merged"
    /\ op' = [NoOp EXCEPT !.kind = "merge"]
    /\ UNCHANGED <<diags, imports, infer_vars>>

\* Qast::merge on the monolith a previous merge returned
MergeMain ==
    /\ phase = "merged"
    /\ merges < MaxMerges
    /\ modules' = MergeMonolith(modules, mono)
    /\ mono' = [j \in 1..Len(mono) |-> mono[j]]
    /\ merges' = merges + 1
    /\ op' = [NoOp EXCEPT !.kind = "merge_main"]
    /\ UNCHANGED <<phase, diags, imports, infer_vars>>

Next ==
    \/ \E name \in ModuleNames : AppendModule(name)
    \/ \E m \in 1..MaxModules, other \in ParsedFunctions : AppendFunction(m, other)
    \/ \E m \in 1..MaxModules, mod_name \in ModuleNames, fn_name \in {<<"a">>, <<"b">>, <<"u">>},
          impl \in {"mangle.rs", "utils.rs"} : Import(m, mod_name, fn_name, impl)
    \/ Merge
    \/ MergeMain

Spec == Init /\ [][Next]_vars

\* The sessions of a program without imports.
NextAst ==
    \/ \E name \in ModuleNames : AppendModule(name)
    \/ \E m \in 1..MaxModules, other \in ParsedFunctions : AppendFunction(m, other)
    \/ Merge
    \/ MergeMain

SpecAst == Init /\ [][NextAst]_vars

----------------------------------------------------------------------------
(* Properties of the mangler and of the AST operations                      *)

RECURSIVE CallNames(_)
\* The names of the FnCall nodes of an expression, at every depth.
CallNames(expr) ==
    (IF expr.tag = "FnCall" THEN {expr.name} ELSE {})
    \cup UNION { CallNames(expr.a[i]) : i \in 1..Len(expr.a) }
    \cup UNION { CallNames(expr.b[i]) : i \in 1..Len(expr.b) }
    \cup UNION { CallNames(expr.c[i]) : i \in 1..Len(expr.c) }

RECURSIVE RenameCalls(_, _, _)
\* The expression with every FnCall whose name is in `targets` prefixed with
\* `prefix`, and nothing else changed.
RenameCalls(expr, targets, prefix) ==
    LET each(s) == [i \in 1..Len(s) |-> RenameCalls(s[i], targets, prefix)]
    IN  [expr EXCEPT !.a = each(@), !.b = each(@), !.c = each(@),
                     !.name = IF expr.tag = "FnCall" /\ expr.name \in targets
                              THEN <<prefix>> \o expr.name
                              ELSE @]

\* The function names and the call names of a program, by position.
NamesOf(ms) ==
    [k \in 1..Len(ms) |->
        [i \in 1..Len(ms[k].functions) |->
            [name |-> ms[k].functions[i].name,
             calls |-> [n \in 1..Len(ms[k].functions[i].body) |->
                            CallNames(ms[k].functions[i].body[n])]]]]

DefinedNames(ms) ==
    UNION { { ms[k].functions[i].name : i \in 1..Len(ms[k].functions) } : k \in 1..Len(ms) }

BodyCallNames(function) ==
    UNION { CallNames(function.body[n]) : n \in 1..Len(function.body) }

CalledNames(ms) ==
    UNION { UNION { BodyCallNames(ms[k].functions[i]) : i \in 1..Len(ms[k].functions) } :
            k \in 1..Len(ms) }

\* C1: Merge is idempotent: a second application of merge, on the same
\* program or on the monolith the first one returned, leaves every function
\* name and every FnCall name as the first application left it.
C1_MergeIdempotent ==
    [][(merges >= 1 /\ merges' = merges + 1) => NamesOf(modules') = NamesOf(modules)]_vars

\* C2: Merge preserves source order: the monolith holds every function of
\* every module exactly once, ordered by the module's position and then by
\* the function's position in its module.
C2_MergePreservesOrder ==
    merges >= 1 =>
        /\ \A j \in 1..Len(mono) :
                /\ mono[j][1] \in 1..Len(modules)
                /\ mono[j][2] \in 1..Len(modules[mono[j][1]].functions)
        /\ \A k \in 1..Len(modules) : \A i \in 1..Len(modules[k].functions) :
                Cardinality({ j \in 1..Len(mono) : mono[j] = <<k, i>> }) = 1
        /\ \A j1, j2 \in 1..Len(mono) :
                j1 < j2 => \/ mono[j1][1] < mono[j2][1]
                           \/ mono[j1][1] = mono[j2][1] /\ mono[j1][2] < mono[j2][2]

\* Two modules of two functions each have been merged.
C2_Witness ==
    /\ merges >= 1
    /\ Len(modules) = 2
    /\ Len(modules[1].functions) = 2
    /\ Len(modules[2].functions) = 2
    /\ Len(mono) = 4

\* What top-level mangling makes of module M: f becomes M$f and exactly the
\* calls of M's own pre-merge function names are prefixed.
TopLevelMangled(module) ==
    LET own == { module.functions[i].name : i \in 1..Len(module.functions) }
    IN  [module EXCEPT !.functions =
            [i \in 1..Len(module.functions) |->
                [module.functions[i] EXCEPT
                    !.name = <<module.name>> \o @,
                    !.body = [n \in 1..Len(@) |-> RenameCalls(@[n], own, module.name)]]]]

C4_EveryCallResolved ==
    merges = 1 =>
        \A name \in CalledNames(modules) :
            \/ name \in DefinedNames(modules)
            \/ \E d \in 1..Len(diags) :
                    /\ diags[d].kind = "UnknownImport"
                    /\ diags[d].name = name

\* What per-import mangling makes of a module: exactly the calls named
\* fn_name are prefixed with mod_name.
ImportMangled(module, mod_name, fn_name) ==
    [module EXCEPT !.functions =
        [i \in 1..Len(module.functions) |->
            [module.functions[i] EXCEPT
                !.body = [n \in 1..Len(@) |-> RenameCalls(@[n], {fn_name}, mod_name)]]]]

\* C5: Per-import mangling: mangle_module(module, mod_name, fn_name) rewrites
\* every FnCall named fn_name to `mod_name$fn_name` at every nesting depth
\* and changes nothing else.
C5_PerImportMangling ==
    [][op'.kind = "mangle_module" =>
          modules' = [modules EXCEPT ![op'.m] = ImportMangled(@, op'.mod_name, op'.fn_name)]]_vars

\* C6: Function names are unique within a module: no sequence of
\* append_function calls leaves two functions of a name in a module, and a
\* call with a name the module holds returns RedefinedFunction and leaves
\* its function list as it was.
C6_UniqueFunctionNames ==
    [][op'.kind = "append_function" =>
          LET before == modules[op'.m].functions
              after == modules'[op'.m].functions
              held == \E i \in 1..Len(before) : before[i].name = op'.fn_name
          IN  /\ \A i, j \in 1..Len(after) : after[i].name = after[j].name => i = j
              /\ held => op'.ret = "RedefinedFunction" /\ after = before
              /\ ~held => /\ op'.ret = "Ok"
                          /\ Len(after) = Len(before) + 1
                          /\ after[Len(after)].name = op'.fn_name]_vars

\* A function was appended to a module that held one of its name.
C6_Witness ==
    /\ op.kind = "append_function"
    /\ op.ret = "RedefinedFunction"
    /\ Len(modules[op.m].functions) >= 1

----------------------------------------------------------------------------
(* Type inference of a parsed program: `infer`, src/src/inference.rs:161    *)

MaxBody == 2

\* The instructions a parsed function body is made of.  `p` is the
\* function's parameter, `x` and `y` are locals, `b` is another function.
Instructions ==
    { Digit,                                                        \* 1
      QbitLit,                                                      \* 0q(1, 0)
      Var("p", Bottom),                                             \* p
      Var("x", Bottom),                                             \* x
      Let("x", Bottom, Digit),                                      \* let x = 1
      Let("x", Qbit, Var("p", Bottom)),                             \* let x: qbit = p
      Let("x", Bit, Var("p", Bottom)),                              \* let x: bit = p
      Let("x", F64, QbitLit),                                       \* let x: f64 = 0q(1, 0)
      BinaryExpr(Digit, "Mul", QbitLit),                            \* 2 * 0q(1, 0)
      Let("x", Bottom, BinaryExpr(Digit, "Mul", Var("p", Bottom))), \* let x = 2 * p
      Let("x", Bottom, BinaryExpr(QbitLit, "Add", Digit)),          \* let x = 0q(1, 0) + 1
      Let("y", Bottom, Var("x", Bottom)),                           \* let y = x
      Conditional(Var("p", Bottom), << Var("x", Bottom) >>, << Digit >>),
                                                                    \* if p { x } else { 1 }
      Conditional(BinaryExpr(Var("x", Bottom), "LessThan", Digit),
                  << Var("x", Bottom), Digit >>, << Digit >>),      \* if x < 1 { x; 1 } else { 1 }
      Tensor(<< Var("x", Bottom), Digit >>),                        \* [x, 1]
      FnCall("b", << Var("x", Bottom) >>) }                         \* b(x)

\* fn b(r: f64): f64 { r }
DeclaredB == FunctionAST("b", << VarAST("r", F64) >>, F64, <<>>, << Var("r", Bottom) >>)

\* fn b() { 0q(1, 0) }
InferredB == FunctionAST("b", <<>>, Bottom, <<>>, << QbitLit >>)

\* The module of `fn a(..) [: T] { body }`, alone, after a declared b or
\* before an inferred b.
ParsedProgram(params, output_type, body, with) ==
    LET a == FunctionAST("a", params, output_type, <<>>, body)
    IN  << ModuleAST("M", CASE with = "alone" -> << a >>
                            [] with = "after" -> << DeclaredB, a >>
                            [] with = "before" -> << a, InferredB >>) >>

InitInfer ==
    /\ \E params \in { <<>>, << VarAST("p", Qbit) >> }, output_type \in {Bottom, Qbit, F64},
          n \in 0..MaxBody, with \in {"alone", "after", "before"} :
            \E body \in [1..n -> Instructions] :
                modules = ParsedProgram(params, output_type, body, with)
    /\ mono = <<>>
    /\ merges = 0
    /\ phase = "parsed"
    /\ op = NoOp
    /\ diags = <<>>
    /\ imports = <<>>
    /\ InferIdle

SetCell(ms, ref, function) == [ms EXCEPT ![ref[1]].functions[ref[2]] = function]

\* inference.rs:161-187: merge, then the function table of the monolith:
\* every function under its name and under `Main$` + its name.
InferStart ==
    /\ phase = "parsed"
    /\ LET ast == MergeProgram(modules)
           cells == FlatMap(modules, 1)
           module_name == "Main"
       IN  /\ modules' = ast
           /\ mono' = cells
           /\ declared' = [j \in 1..Len(cells) |-> Cell(ast, cells[j]).output_type]
           /\ function_table' =
                UNION { { [name |-> Cell(ast, cells[j]).name,
                           ty |-> Cell(ast, cells[j]).output_type],
                          [name |-> Dollar(module_name, Cell(ast, cells[j]).name),
                           ty |-> Cell(ast, cells[j]).output_type] } : j \in 1..Len(cells) }
           /\ phase' = IF Len(cells) = 0 THEN "infer_end" ELSE "infer_fn"
    /\ merges' = merges + 1
    /\ seen_errors' = FALSE
    /\ fn_idx' = 1
    /\ op' = [NoOp EXCEPT !.kind = "infer"]
    /\ UNCHANGED <<diags, imports, parameter_table, local_var_table, instr_idx, result>>

\* inference.rs:189-212: the parameter table, and the local table holding
\* the typed `let` variables of the body.
FnBegin ==
    /\ phase = "infer_fn"
    /\ LET function == Cell(modules, mono[fn_idx])
           body == function.body
       IN  /\ parameter_table' = { function.params[i] : i \in 1..Len(function.params) }
           /\ local_var_table' =
                { [name |-> body[k].name, ty |-> body[k].ty] :
                    k \in { n \in 1..Len(body) : body[n].tag = "Let" /\ body[n].ty # Bottom } }
           /\ phase' = IF Len(body) = 0 THEN "infer_ret" ELSE "infer_instr"
           /\ op' = [NoOp EXCEPT !.kind = "fn_begin", !.fn_name = function.name]
    /\ instr_idx' = 1
    /\ UNCHANGED <<ast_vars, diags, imports, declared, function_table, fn_idx, seen_errors, result>>

\* A loop that leaves the local table as it was before the instruction.
push_let_never(table, instruction) == table

\* inference.rs:219-226, 252-259: a typed `let` variable enters the local table.
push_let(table, instruction) ==
    IF instruction.tag = "Let" /\ instruction.ty # Bottom
    THEN table \cup { [name |-> instruction.name, ty |-> instruction.ty] }
    ELSE table

\* inference.rs:215-285: one turn of the instruction loop.  param_st,
\* local_st and function_st are the iteration orders of the three tables.
InferInstruction(param_st, local_st, function_st) ==
    /\ phase = "infer_instr"
    /\ LET function == Cell(modules, mono[fn_idx])
           instruction == function.body[instr_idx]
           first == infer_expr(instruction)
           instruction_type == first.r
           from_table == instruction_type = None \/ instruction_type = Bottom
           second == infer_from_table(first.e, param_st, local_st, function_st)
           final == IF from_table THEN second.e ELSE first.e
           untyped == from_table /\ second.r.k # "None"
       IN  /\ modules' = SetCell(modules, mono[fn_idx],
                                 [function EXCEPT !.body[instr_idx] = final])
           /\ local_var_table' = IF untyped THEN local_var_table
                                 ELSE push_let(local_var_table, final)
           /\ seen_errors' = (seen_errors \/ untyped)
           /\ diags' = IF ~untyped THEN diags
                       ELSE IF second.r.k = "Untyped"
                       THEN Append(diags, Diag("UnknownType", second.r.name, function.name, "instruction"))
                       ELSE Append(diags, Diag("TypeMismatch", instruction.name, function.name, "instruction"))
           /\ phase' = IF instr_idx = Len(function.body) THEN "infer_ret" ELSE "infer_instr"
           /\ op' = [NoOp EXCEPT !.kind = "infer_instruction", !.fn_name = function.name,
                                 !.m = instr_idx, !.ret = instruction_type]
    /\ instr_idx' = instr_idx + 1
    /\ UNCHANGED <<mono, merges, imports, declared, function_table, parameter_table, fn_idx, result>>

\* The return check without promotion: a Bottom output type stays Bottom.
return_check_no_promotion(fn_return_type, last_instruction_type) ==
    IF /\ fn_return_type = Bottom
       /\ last_instruction_type # None
       /\ last_instruction_type # Bottom
    THEN [output_type |-> fn_return_type, mismatch |-> FALSE]
    ELSE [output_type |-> fn_return_type, mismatch |-> last_instruction_type # fn_return_type]

\* The return check without the comparison: no mismatch is ever seen.
return_check_silent(fn_return_type, last_instruction_type) ==
    IF /\ fn_return_type = Bottom
       /\ last_instruction_type # None
       /\ last_instruction_type # Bottom
    THEN [output_type |-> last_instruction_type, mismatch |-> FALSE]
    ELSE [output_type |-> fn_return_type, mismatch |-> FALSE]

\* The return check giving up once an error was seen: nothing is promoted
\* or compared any more.
return_check_after_error(fn_return_type, last_instruction_type) ==
    IF seen_errors
    THEN [output_type |-> fn_return_type, mismatch |-> FALSE]
    ELSE IF /\ fn_return_type = Bottom
            /\ last_instruction_type # None
            /\ last_instruction_type # Bottom
    THEN [output_type |-> last_instruction_type, mismatch |-> FALSE]
    ELSE [output_type |-> fn_return_type, mismatch |-> last_instruction_type # fn_return_type]

\* inference.rs:299-329: what the return check makes of the function's
\* output type and of the type inferred for its last instruction.
return_check(fn_return_type, last_instruction_type) ==
    IF /\ fn_return_type = Bottom
       /\ last_instruction_type # None
       /\ last_instruction_type # Bottom
    THEN [output_type |-> last_instruction_type, mismatch |-> FALSE]
    ELSE [output_type |-> fn_return_type, mismatch |-> last_instruction_type # fn_return_type]

\* inference.rs:287-330: the check between the function's return type and
\* its last instruction.
FnEnd ==
    /\ phase = "infer_ret"
    /\ LET function == Cell(modules, mono[fn_idx])
           fn_return_type == function.output_type
           fn_name == function.name
           n == Len(function.body)
       IN  /\ IF n = 0
              THEN UNCHANGED <<modules, seen_errors, diags>>
              ELSE LET last == infer_expr(function.body[n])
                       checked == return_check(fn_return_type, last.r)
                   IN  /\ modules' = SetCell(modules, mono[fn_idx],
                                             [function EXCEPT !.body[n] = last.e,
                                                              !.output_type = checked.output_type])
                       /\ seen_errors' = (seen_errors \/ checked.mismatch)
                       /\ diags' = IF checked.mismatch
                                   THEN Append(diags, Diag("TypeMismatch", fn_name, fn_name, "return"))
                                   ELSE diags
           /\ op' = [NoOp EXCEPT !.kind = "fn_end", !.fn_name = fn_name,
                                 !.ret = IF n = 0 THEN None ELSE infer_expr(function.body[n]).r]
    /\ fn_idx' = fn_idx + 1
    /\ phase' = IF fn_idx = Len(mono) THEN "infer_end" ELSE "infer_fn"
    /\ UNCHANGED <<mono, merges, imports, declared, function_table, parameter_table,
                   local_var_table, instr_idx, result>>

\* inference.rs:334-338
InferEnd ==
    /\ phase = "infer_end"
    /\ result' = IF seen_errors THEN "TypeError" ELSE "Ok"
    /\ phase' = "done"
    /\ op' = [NoOp EXCEPT !.kind = "infer_end", !.ret = result']
    /\ UNCHANGED <<ast_vars, diags, imports, declared, function_table, parameter_table,
                   local_var_table, fn_idx, instr_idx, seen_errors>>

NextInfer ==
    \/ InferStart
    \/ FnBegin
    \/ \E param_st \in Orders(parameter_table), local_st \in Orders(local_var_table),
          function_st \in Orders(function_table) :
            InferInstruction(param_st, local_st, function_st)
    \/ FnEnd
    \/ InferEnd

SpecInfer == InitInfer /\ [][NextInfer]_vars

----------------------------------------------------------------------------
(* Properties of type inference                                             *)

\* The functions of the program, wherever the session is.
Functions ==
    UNION { { modules[k].functions[i] : i \in 1..Len(modules[k].functions) } :
            k \in 1..Len(modules) }

Instructions_of(function) == { function.body[n] : n \in 1..Len(function.body) }

\* C7: A binary expression with one operand of type Qbit and the other of
\* type F64, in either order, is inferred as Qbit: infer_expr returns
\* Some(Qbit) for it, the type get_type reports.
C7_QbitFloatIsQbit ==
    op.kind = "infer_instruction" =>
        LET instruction == Cell(modules, mono[fn_idx]).body[op.m]
        IN  ( /\ instruction.tag = "BinaryExpr"
              /\ {get_type(instruction.a[1]), get_type(instruction.b[1])} = {Qbit, F64} )
            => /\ op.ret = Qbit
               /\ op.ret = get_type(instruction)

RECURSIVE HasUntypedVar(_)
\* Some variable of the expression has type Bottom, outside every tensor
\* whose type is Bottom.
HasUntypedVar(expr) ==
    IF expr.tag = "Var"
    THEN expr.ty = Bottom
    ELSE IF expr.tag = "Tensor" /\ get_type(expr) = Bottom
    THEN FALSE
    ELSE \/ \E i \in 1..Len(expr.a) : HasUntypedVar(expr.a[i])
         \/ \E i \in 1..Len(expr.b) : HasUntypedVar(expr.b[i])
         \/ \E i \in 1..Len(expr.c) : HasUntypedVar(expr.c[i])

\* C8: When infer returns Ok, every variable reachable from a function
\* body, those of a conditional's condition and blocks included, has a type
\* other than Bottom, unless it is inside a tensor whose type stayed Bottom.
C8_EveryVarTyped ==
    (phase = "done" /\ result = "Ok") =>
        \A function \in Functions : \A instruction \in Instructions_of(function) :
            ~HasUntypedVar(instruction)

\* C9: Output-type promotion: when infer returns Ok, a function declared
\* without an output type and with a non-empty body has the type inferred
\* for its last instruction as its output type, and a function declared
\* with an output type keeps it.
C9_OutputTypePromotion ==
    (phase = "done" /\ result = "Ok") =>
        \A j \in 1..Len(mono) :
            LET function == Cell(modules, mono[j])
                n == Len(function.body)
            IN  /\ (declared[j] = Bottom /\ n > 0) =>
                        function.output_type = infer_expr(function.body[n]).r
                /\ declared[j] # Bottom => function.output_type = declared[j]

\* infer returned Ok on a program with a function it promoted from Bottom
\* and a function that kept its declared type.
C9_Witness ==
    /\ phase = "done"
    /\ result = "Ok"
    /\ \E j \in 1..Len(mono) :
        /\ declared[j] = Bottom
        /\ Len(Cell(modules, mono[j]).body) > 0
        /\ Cell(modules, mono[j]).output_type = Qbit
    /\ \E j \in 1..Len(mono) :
        /\ declared[j] = F64
        /\ Cell(modules, mono[j]).output_type = F64

ReturnMismatch(function) == Diag("TypeMismatch", function.name, function.name, "return")

\* C10: Type mismatch on return: for a function declared with output type T,
\* the return check reports TypeMismatch for the function when the type
\* inferred for its last instruction is not T or is not inferred, and
\* reports none when it is T; the output type stays T; infer returns
\* TypeError once a mismatch was reported.
C10_TypeMismatchOnReturn ==
    /\ op.kind = "fn_end" =>
        LET function == Cell(modules, mono[fn_idx - 1])
            T == declared[fn_idx - 1]
            reported == \E d \in 1..Len(diags) : diags[d] = ReturnMismatch(function)
        IN  (T # Bottom /\ Len(function.body) > 0) =>
                /\ function.output_type = T
                /\ op.ret # T => reported /\ seen_errors
                /\ op.ret = T => ~reported
    /\ (phase = "done" /\ \E d \in 1..Len(diags) :
                            diags[d].kind = "TypeMismatch" /\ diags[d].site = "return")
        => result = "TypeError"

\* The return check met a function declared qbit whose last instruction is
\* inferred f64, and reported it.
C10_Witness ==
    /\ op.kind = "fn_end"
    /\ declared[fn_idx - 1] = Qbit
    /\ op.ret = F64
    /\ Len(diags) > 0
    /\ diags[Len(diags)] = ReturnMismatch(Cell(modules, mono[fn_idx - 1]))

\* C11: Inference does not stop at the first diagnostic: infer returns
\* TypeError exactly when a diagnostic was reported, and whatever was
\* reported every later instruction is still inferred and every function
\* still has its output type promoted from its last instruction.
C11_InferenceContinues ==
    phase = "done" =>
        /\ result = "TypeError" <=>
                \E d \in 1..Len(diags) : diags[d].kind \in {"UnknownType", "TypeMismatch"}
        /\ fn_idx = Len(mono) + 1
        /\ \A j \in 1..Len(mono) :
            LET function == Cell(modules, mono[j])
                n == Len(function.body)
                last == IF n = 0 THEN None ELSE infer_expr(function.body[n]).r
            IN  /\ function.output_type =
                        IF declared[j] = Bottom /\ last \notin {None, Bottom}
                        THEN last
                        ELSE declared[j]
                /\ \A k \in 1..n :
                        ( /\ function.body[k].tag = "Let"
                          /\ infer_expr(function.body[k].a[1]).r \notin {None, Bottom} )
                        => function.body[k].ty # Bottom

\* infer ended with TypeError: the first instruction of the first function
\* was reported, the `let` after it is typed all the same and the function
\* after it is promoted.
C11_Witness ==
    /\ phase = "done"
    /\ result = "TypeError"
    /\ Len(mono) = 2
    /\ Len(diags) >= 1
    /\ diags[1].site = "instruction"
    /\ diags[1].fn = Cell(modules, mono[1]).name
    /\ Len(Cell(modules, mono[1]).body) = 2
    /\ Cell(modules, mono[1]).body[2].tag = "Let"
    /\ Cell(modules, mono[1]).body[2].ty = F64
    /\ declared[2] = Bottom
    /\ Cell(modules, mono[2]).output_type = Qbit

\* `let x: T = e` as written (before) and as inference left it (after), with
\* T and the type of e being Bit and Qbit, either way.
BitQbitLet(before, after) ==
    /\ before.tag = "Let"
    /\ {before.ty, get_type(after.a[1])} = {Bit, Qbit}

\* `let x: T = e` with T and the type of e two other different known types.
ConflictingLet(before, after) ==
    /\ before.tag = "Let"
    /\ before.ty # Bottom
    /\ get_type(after.a[1]) # Bottom
    /\ before.ty # get_type(after.a[1])
    /\ {before.ty, get_type(after.a[1])} # {Bit, Qbit}

\* C12: Bit/Qbit assignment across a let is permitted: inference reports
\* nothing because of `let x: T = e` with T and e's type being Bit and Qbit,
\* neither when it infers the let nor when the let is the function's last
\* instruction, and reports TypeMismatch for a let of two other different
\* known types.
C12_BitQbitLetPermitted ==
    [][ /\ op'.kind = "infer_instruction" =>
            LET before == Cell(modules, mono[fn_idx]).body[op'.m]
                after == Cell(modules', mono[fn_idx]).body[op'.m]
            IN  /\ BitQbitLet(before, after) => diags' = diags
                /\ ConflictingLet(before, after) =>
                        /\ Len(diags') = Len(diags) + 1
                        /\ diags'[Len(diags')].kind = "TypeMismatch"
        /\ op'.kind = "fn_end" =>
            LET n == Len(Cell(modules, mono[fn_idx]).body)
            IN  ( /\ n > 0
                  /\ declared[fn_idx] = Bottom
                  /\ BitQbitLet(Cell(modules, mono[fn_idx]).body[n],
                                Cell(modules', mono[fn_idx]).body[n]) )
                => diags' = diags ]_vars

----------------------------------------------------------------------------
(* Expr::get_type applied to conditionals: src/src/ast.rs *)

MaxBlock == 2

\* The expressions a block of a conditional is made of: literals and
\* variables, typed and untyped.
BlockExprs == {Digit, QbitLit, Var("x", Bit), Var("y", Bottom)}

Blocks == UNION {[1..n -> BlockExprs] : n \in 0..MaxBlock}

\* No inference and no session is running; `op` holds the argument of the
\* function about to be applied.
Argument(kind, input) ==
    /\ modules = <<>>
    /\ mono = <<>>
    /\ merges = 0
    /\ phase = "call"
    /\ op = [NoOp EXCEPT !.kind = kind, !.m = input, !.ret = None]
    /\ diags = <<>>
    /\ imports = <<>>
    /\ InferIdle

InitGetType ==
    \E truth_block \in Blocks, false_block \in Blocks :
        Argument("expr", Conditional(BinaryExpr(Var("p", Bit), "<", Digit), truth_block, false_block))

\* expr.get_type(), ast.rs:636
GetType ==
    /\ op.kind = "expr"
    /\ op' = [op EXCEPT !.kind = "get_type", !.ret = get_type(op.m)]
    /\ UNCHANGED <<ast_vars, phase, diags, imports, infer_vars>>

NextGetType == GetType

SpecGetType == InitGetType /\ [][NextGetType]_vars

\* C13: get_type of a conditional is the type of the last expression of its
\* truth block, and Bottom whenever the truth block or the false block is
\* empty.
C13_ConditionalType ==
    op.kind = "get_type" =>
        LET truth_block == op.m.b
            false_block == op.m.c
        IN  op.ret = IF Len(truth_block) = 0 \/ Len(false_block) = 0
                     THEN Bottom
                     ELSE get_type(truth_block[Len(truth_block)])

----------------------------------------------------------------------------
(* Qbit literals: impl FromStr / Display for Qbit, src/src/ast.rs.
   A string is the sequence of its characters. *)

starts_with(s, pat) == Len(s) >= Len(pat) /\ SubSeq(s, 1, Len(pat)) = pat

ends_with(s, pat) == Len(s) >= Len(pat) /\ SubSeq(s, Len(s) - Len(pat) + 1, Len(s)) = pat

RECURSIVE trim_start_matches(_, _)
\* str::trim_start_matches with a string pattern: every repetition of the
\* prefix is removed.
trim_start_matches(s, pat) ==
    IF starts_with(s, pat)
    THEN trim_start_matches(SubSeq(s, Len(pat) + 1, Len(s)), pat)
    ELSE s

RECURSIVE trim_start_chars(_, _)
trim_start_chars(s, chars) ==
    IF Len(s) > 0 /\ s[1] \in chars THEN trim_start_chars(Tail(s), chars) ELSE s

RECURSIVE trim_end_chars(_, _)
trim_end_chars(s, chars) ==
    IF Len(s) > 0 /\ s[Len(s)] \in chars
    THEN trim_end_chars(SubSeq(s, 1, Len(s) - 1), chars)
    ELSE s

\* str::trim_matches with a set of characters: all of them, at both ends.
trim_matches(s, chars) == trim_end_chars(trim_start_chars(s, chars), chars)

\* str::trim
trim(s) == trim_matches(s, {" "})

\* str::split_once at a character: around its first occurrence.
split_once(s, ch) ==
    IF \E i \in 1..Len(s) : s[i] = ch
    THEN LET i == CHOOSE i \in 1..Len(s) : s[i] = ch /\ \A j \in 1..(i - 1) : s[j] # ch
         IN  [some |-> TRUE, s1 |-> SubSeq(s, 1, i - 1), s2 |-> SubSeq(s, i + 1, Len(s))]
    ELSE [some |-> FALSE, s1 |-> <<>>, s2 |-> <<>>]

DecimalDigits == {"0", "1", "5"}

RECURSIVE strip_leading_zeros(_)
strip_leading_zeros(ds) ==
    IF Len(ds) > 1 /\ ds[1] = "0" THEN strip_leading_zeros(Tail(ds)) ELSE ds

\* str::parse::<f64> on unsigned decimal numerals without exponent: digits
\* with at most one point and at least one digit. The value is kept as its
\* integer digits without leading zeros and its fraction digits without
\* trailing zeros, so that 1, 1.0 and 01 are one f64.
parse_f64(s) ==
    LET point == split_once(s, ".")
        int == IF point.some THEN point.s1 ELSE s
        frac == IF point.some THEN point.s2 ELSE <<>>
    IN  IF /\ \A i \in 1..Len(int) : int[i] \in DecimalDigits
           /\ \A i \in 1..Len(frac) : frac[i] \in DecimalDigits
           /\ Len(int) + Len(frac) > 0
        THEN [is_err |-> FALSE,
              int |-> strip_leading_zeros(IF int = <<>> THEN <<"0">> ELSE int),
              frac |-> trim_end_chars(frac, {"0"})]
        ELSE [is_err |-> TRUE, int |-> <<>>, frac |-> <<>>]

\* Display for f64
fmt_f64(x) == IF x.frac = <<>> THEN x.int ELSE x.int \o <<".">> \o x.frac

QbitErr(kind) == [is_err |-> TRUE, err |-> kind, amp_0 |-> <<>>, amp_1 |-> <<>>]

\* <Qbit as FromStr>::from_str, ast.rs:469
Qbit_from_str(s) ==
    IF ~starts_with(s, <<"0", "q">>)
    THEN QbitErr("ExpectedQbit")
    ELSE LET t == trim_start_matches(s, <<"0", "q">>)
         IN  IF ~starts_with(t, <<"(">>) \/ ~ends_with(t, <<")">>)
             THEN QbitErr("ExpectedParenth")
             ELSE LET pair == split_once(trim_matches(t, {"(", ")"}), ",")
                      amp_0 == parse_f64(trim(pair.s1))
                      amp_1 == parse_f64(trim(pair.s2))
                  IN  IF ~pair.some
                      THEN QbitErr("ExpectedComma")
                      ELSE IF amp_0.is_err
                      THEN QbitErr("ExpectedAmpinQbit")
                      ELSE IF amp_1.is_err
                      THEN QbitErr("ExpectedAmpinQbit")
                      ELSE [is_err |-> FALSE, err |-> "", amp_0 |-> amp_0, amp_1 |-> amp_1]

\* <Qbit as Display>::fmt, ast.rs:457
Qbit_fmt(qbit) == <<"0", "q">> \o fmt_f64(qbit.amp_0) \o <<"_">> \o fmt_f64(qbit.amp_1)

MaxRepeat == 2

RECURSIVE Repeat(_, _)
Repeat(s, n) == IF n = 0 THEN <<>> ELSE s \o Repeat(s, n - 1)

\* The amplitudes written in a literal: numerals in several spellings, a
\* name, nothing.
Amplitudes == {<<"1">>, <<"0", ".", "5">>, <<"1", ".", "0">>, <<".", "5">>, <<"a">>, <<>>}

\* The strings handed to the parser: a prefix, parentheses, two amplitudes
\* and what separates them, each present, absent or repeated.
QbitLiterals ==
    { prefix \o Repeat(<<"(">>, open) \o a0 \o sep \o a1 \o Repeat(<<")">>, close) :
        prefix \in {Repeat(<<"0", "q">>, n) : n \in 0..MaxRepeat} \cup {<<"0">>},
        open \in 0..MaxRepeat,
        a0 \in Amplitudes,
        sep \in {<<",">>, <<",", " ">>, <<" ">>},
        a1 \in Amplitudes,
        close \in 0..MaxRepeat }

InitQbit == \E s \in QbitLiterals : Argument("literal", s)

\* s.parse::<Qbit>() of a literal or of a rendering
FromStr ==
    /\ op.kind \in {"literal", "rendered"}
    /\ op' = [op EXCEPT !.kind = IF op.kind = "literal" THEN "parsed" ELSE "reparsed",
                        !.ret = Qbit_from_str(op.m)]
    /\ UNCHANGED <<ast_vars, phase, diags, imports, infer_vars>>

\* format!("{}", qbit) of a parsed literal
Display ==
    /\ op.kind = "parsed"
    /\ ~op.ret.is_err
    /\ op' = [op EXCEPT !.kind = "rendered", !.m = Qbit_fmt(op.ret), !.ret = None]
    /\ UNCHANGED <<ast_vars, phase, diags, imports, infer_vars>>

NextQbit == FromStr \/ Display

SpecQbit == InitQbit /\ [][NextQbit]_vars

\* A numeral: digits with at most one point.
Numeric(s) ==
    /\ \A i \in 1..Len(s) : s[i] \in DecimalDigits \cup {"."}
    /\ Cardinality({i \in 1..Len(s) : s[i] = "."}) <= 1
    /\ \E i \in 1..Len(s) : s[i] \in DecimalDigits

\* The first check of `0q(a0, a1)` a string violates, "" when it violates none.
FirstViolated(s) ==
    IF ~starts_with(s, <<"0", "q">>)
    THEN "ExpectedQbit"
    ELSE LET t == SubSeq(s, 3, Len(s))
         IN  IF ~(starts_with(t, <<"(">>) /\ ends_with(t, <<")">>))
             THEN "ExpectedParenth"
             ELSE LET inside == split_once(SubSeq(t, 2, Len(t) - 1), ",")
                  IN  IF ~inside.some
                      THEN "ExpectedComma"
                      ELSE IF ~Numeric(trim(inside.s1)) \/ ~Numeric(trim(inside.s2))
                      THEN "ExpectedAmpinQbit"
                      ELSE ""

\* C14: a Qbit literal is accepted if and only if it has the form `0q(a0, a1)`
\* with numeric amplitudes; otherwise the error is that of the first violated
\* check: ExpectedQbit, ExpectedParenth, ExpectedComma, ExpectedAmpinQbit.
C14_QbitLiteralAccepted ==
    op.kind = "parsed" =>
        /\ ~op.ret.is_err <=> FirstViolated(op.m) = ""
        /\ op.ret.is_err => op.ret.err = FirstViolated(op.m)

\* C15: the rendering of an accepted literal is `0q<a>_<b>`, and parsing the
\* rendering succeeds and renders to the same string again.
C15_QbitRoundTrip ==
    /\ op.kind = "rendered" =>
            \E a, b \in {fmt_f64(parse_f64(x)) : x \in Amplitudes} :
                op.m = <<"0", "q">> \o a \o <<"_">> \o b
    /\ op.kind = "reparsed" =>
            /\ ~op.ret.is_err
            /\ Qbit_fmt(op.ret) = op.m

----------------------------------------------------------------------------
(* Attribute lists: src/src/attributes.rs *)

deter == <<"d", "e", "t", "e", "r">>

nondeter == <<"n", "o", "n", "d", "e", "t", "e", "r">>

\* <Attribute as FromStr>::from_str, attributes.rs:19
Attribute_from_str(s) ==
    IF s = deter THEN "Deter"
    ELSE IF s = nondeter THEN "NonDeter"
    ELSE "UnexpectedAttr"

RECURSIVE split(_, _)
\* str::split at a character
split(s, ch) ==
    LET pair == split_once(s, ch)
    IN  IF pair.some THEN <<pair.s1>> \o split(pair.s2, ch) ELSE <<s>>

\* str::split_terminator: as split, without a trailing empty piece.
split_terminator(s, ch) ==
    LET pieces == split(s, ch)
    IN  IF pieces[Len(pieces)] = <<>> THEN SubSeq(pieces, 1, Len(pieces) - 1) ELSE pieces

RECURSIVE parse_attrs(_, _, _, _, _)
\* The loop `for attr in attrs` of Attributes::from_str from attribute k on,
\* attributes.rs:71-90
parse_attrs(attrs, k, parsed, first, col) ==
    IF k > Len(attrs)
    THEN [is_err |-> FALSE, attrs |-> parsed, err |-> "", col |-> 0]
    ELSE LET attr == attrs[k]
             first1 == IF first THEN ~first ELSE first
             a == Attribute_from_str(attr)
         IN  IF a # "UnexpectedAttr"
             THEN parse_attrs(attrs, k + 1, Append(parsed, a), first1,
                              IF first1 THEN col + Len(attr) ELSE col + 2 + Len(attr))
             ELSE [is_err |-> TRUE, attrs |-> <<>>, err |-> a, col |-> col]

\* <Attributes as FromStr>::from_str, attributes.rs:59
Attributes_from_str(s) ==
    LET inner == trim_end_chars(trim_start_matches(s, <<"#", "[">>), {"]"})
        pieces == split_terminator(inner, ",")
        attrs == [i \in 1..Len(pieces) |-> trim(pieces[i])]
    IN  parse_attrs(attrs, 1, <<>>, TRUE, 2)

MaxAttrs == 3

\* A name that is no attribute.
unknown == <<"b", "a", "d">>

Separators == {<<",">>, <<",", " ">>, <<" ", ",">>, <<",", " ", " ">>}

RECURSIVE AttributeLists(_)
\* n names separated by commas, with every spacing around each comma.
AttributeLists(n) ==
    IF n = 0 THEN {<<>>}
    ELSE IF n = 1 THEN {deter, nondeter, unknown}
    ELSE { list \o sep \o name :
            list \in AttributeLists(n - 1),
            sep \in Separators,
            name \in {deter, nondeter, unknown} }

InitAttributes ==
    \E n \in 0..MaxAttrs : \E list \in AttributeLists(n) :
        Argument("attributes", <<"#", "[">> \o list \o <<"]">>)

\* s.parse::<Attributes>()
ParseAttributes ==
    /\ op.kind = "attributes"
    /\ op' = [op EXCEPT !.kind = "parsed_attributes", !.ret = Attributes_from_str(op.m)]
    /\ UNCHANGED <<ast_vars, phase, diags, imports, infer_vars>>

NextAttributes == ParseAttributes

SpecAttributes == InitAttributes /\ [][NextAttributes]_vars

\* The names written in `#[n1, n2, ...]`, in order.
NamesIn(s) ==
    LET pieces == split_terminator(SubSeq(s, 3, Len(s) - 1), ",")
    IN  [i \in 1..Len(pieces) |-> trim(pieces[i])]

\* The offset in s at which the name starts that begins with character ch.
OffsetOf(s, ch) == (CHOOSE i \in 1..Len(s) : s[i] = ch /\ \A j \in 1..(i - 1) : s[j] # ch) - 1

\* C16: `#[n1, n2, ...]` parses to the attributes in source order when every
\* name is deter or nondeter; otherwise parsing fails with UnexpectedAttr, no
\* partial list, and the column of the first unknown name in the string,
\* wherever the name stands and whatever the spacing around the commas.
C16_AttributesParsed ==
    op.kind = "parsed_attributes" =>
        LET names == NamesIn(op.m)
        IN  IF \A i \in 1..Len(names) : names[i] \in {deter, nondeter}
            THEN /\ ~op.ret.is_err
                 /\ op.ret.attrs = [i \in 1..Len(names) |->
                                        IF names[i] = deter THEN "Deter" ELSE "NonDeter"]
            ELSE /\ op.ret.is_err
                 /\ op.ret.err = "UnexpectedAttr"
                 /\ op.ret.attrs = <<>>
                 /\ op.ret.col = OffsetOf(op.m, unknown[1])

----------------------------------------------------------------------------
(* Gate emission: src/src/codegen/qasm.rs *)

\* Qast::iter as `translate` calls it: the functions of the program, in
\* program order. The monolith `merge` returned holds them in that order.
Qast_iter(ms, cells) == [j \in 1..Len(cells) |-> Cell(ms, cells[j])]

\* attrs.0.contains(&Attribute::NonDeter)
contains(attrs, a) == \E i \in 1..Len(attrs) : attrs[i] = a

\* <QasmGate as From<&FunctionAST>>::from, qasm.rs:254
QasmGate(f) == [name |-> f.name, params |-> <<>>, qargs |-> <<>>]

\* <QasmModule as From<Vec<QasmGate>>>::from, qasm.rs:76
QasmModule(gates) == [version |-> "2.0", includes |-> <<>>, gates |-> gates]

RECURSIVE translate_gates_any_attr(_, _)
translate_gates_any_attr(fs, k) ==
    IF k > Len(fs)
    THEN <<>>
    ELSE LET attrs == fs[k].attrs
         IN  (IF ~(Len(attrs) = 0) THEN <<QasmGate(fs[k])>> ELSE <<>>)
                \o translate_gates_any_attr(fs, k + 1)

RECURSIVE translate_gates(_, _)
\* The loop `for f in ast.iter()` of translate from function k on, qasm.rs:66-71
translate_gates(fs, k) ==
    IF k > Len(fs)
    THEN <<>>
    ELSE LET attrs == fs[k].attrs
         IN  (IF ~(Len(attrs) = 0) /\ contains(attrs, "NonDeter") THEN <<QasmGate(fs[k])>> ELSE <<>>)
                \o translate_gates(fs, k + 1)

\* QasmModule::translate, qasm.rs:64
translate(fs) == QasmModule(translate_gates(fs, 1))

MaxFunctions == 3

\* The names of the functions of a program, by position in the source.
FnNames == <<"a", "b", "toss", "c">>

AttributeSets == {<<>>, <<"Deter">>, <<"NonDeter">>, <<"Deter", "NonDeter">>}

\* The module named `name` of a source whose k-th function `decls[k]` is
\* declared in module decls[k].module with attributes decls[k].attrs.
DeclaredModule(name, decls) ==
    LET here == SelectSeq([k \in 1..Len(decls) |-> [k |-> k, decl |-> decls[k]]],
                          LAMBDA d : d.decl.module = name)
    IN  ModuleAST(name, [i \in 1..Len(here) |->
                            FunctionAST(FnNames[here[i].k], <<>>, Bottom, here[i].decl.attrs,
                                        <<QbitLit>>)])

\* The program handed to translate: parsed, then merged once.
InitQasm ==
    \E n \in 0..MaxFunctions :
        \E decls \in [1..n -> [module : {"toss", "B"}, attrs : AttributeSets]] :
            LET parsed == <<DeclaredModule("toss", decls), DeclaredModule("B", decls)>>
            IN  /\ modules = MergeProgram(parsed)
                /\ mono = FlatMap(parsed, 1)
                /\ merges = 1
                /\ phase = "merged"
                /\ op = [NoOp EXCEPT !.kind = "merge"]
                /\ diags = <<>>
                /\ imports = <<>>
                /\ InferIdle

\* QasmModule::translate(ast)
Translate ==
    /\ phase = "merged"
    /\ phase' = "translated"
    /\ op' = [NoOp EXCEPT !.kind = "translate", !.ret = translate(Qast_iter(modules, mono))]
    /\ UNCHANGED <<ast_vars, diags, imports, infer_vars>>

NextQasm == Translate

SpecQasm == InitQasm /\ [][NextQasm]_vars

\* The functions of the program in program order: module after module.
RECURSIVE ProgramOrder(_, _)
ProgramOrder(ms, k) == IF k > Len(ms) THEN <<>> ELSE ms[k].functions \o ProgramOrder(ms, k + 1)

IsNonDeter(f) == \E i \in 1..Len(f.attrs) : f.attrs[i] = "NonDeter"

----------------------------------------------------------------------------
(* The command line: Parser::parse_cmdline, src/src/parser.rs.
   An argument is the sequence of its pieces: "-o" is <<"-", "o">>,
   "main.ql" is <<"main", ".ql">>. *)

\* Config::new, config.rs:22
Config_new ==
    [src |-> <<>>, asm |-> <<>>, status |-> FALSE, level |-> 0,
     dump_ast |-> FALSE, dump_ast_only |-> FALSE, dump_qasm |-> FALSE]

\* str::replace(".ql", ".s")
replace_ql(path) == [i \in 1..Len(path) |-> IF path[i] = ".ql" THEN ".s" ELSE path[i]]

\* The files that exist: Path::new(&path).is_file()
Files == {<<"main", ".ql">>}

is_file(path) == path \in Files

CmdlineOk(config) == [tag |-> "Some", err |-> "", config |-> config, reported |-> <<>>]

CmdlineHelp == [tag |-> "None", err |-> "", config |-> Config_new, reported |-> <<>>]

CmdlineFail(kind, reported) ==
    [tag |-> "Err", err |-> kind, config |-> Config_new, reported |-> reported]

RECURSIVE parse_options(_, _, _, _)
\* The loop `for option in args` from argument k on and what follows it,
\* parser.rs:58-115
parse_options(args, k, config, output_direct) ==
    IF k > Len(args)
    THEN IF config.src = <<>>
         THEN CmdlineFail("NoFile", <<>>)
         ELSE IF ~is_file(config.src)
         THEN CmdlineFail("NoFile", <<>>)
         ELSE CmdlineOk(config)
    ELSE LET option == args[k]
         IN  IF starts_with(option, <<"-", "-">>)
             THEN CASE option = <<"-", "-", "help">> -> CmdlineHelp
                    [] option = <<"-", "-", "analyze">> ->
                        parse_options(args, k + 1, [config EXCEPT !.status = TRUE], output_direct)
                    [] option = <<"-", "-", "dump-ast">> ->
                        parse_options(args, k + 1, [config EXCEPT !.dump_ast = TRUE], output_direct)
                    [] option = <<"-", "-", "dump-ast-only">> ->
                        parse_options(args, k + 1, [config EXCEPT !.dump_ast_only = TRUE], output_direct)
                    [] option = <<"-", "-", "dump-qasm">> ->
                        parse_options(args, k + 1, [config EXCEPT !.dump_qasm = TRUE], output_direct)
                    [] OTHER -> CmdlineFail("CmdlineErr", <<Diag("NoSuchArg", option, <<>>, "parse_cmdline")>>)
             ELSE IF starts_with(option, <<"-">>)
             THEN CASE option = <<"-", "O0">> ->
                        parse_options(args, k + 1, [config EXCEPT !.level = 0], output_direct)
                    [] option = <<"-", "O1">> ->
                        parse_options(args, k + 1, [config EXCEPT !.level = 1], output_direct)
                    [] option = <<"-", "O2">> ->
                        parse_options(args, k + 1, [config EXCEPT !.level = 2], output_direct)
                    [] option = <<"-", "Og">> ->
                        parse_options(args, k + 1, [config EXCEPT !.level = 3], output_direct)
                    [] option = <<"-", "o">> ->
                        parse_options(args, k + 1, config,
                                      IF output_direct % 2 = 1 THEN output_direct ELSE output_direct + 1)
                    [] option = <<"-", "h">> -> CmdlineHelp
                    [] OTHER -> CmdlineFail("CmdlineErr", <<Diag("NoSuchArg", option, <<>>, "parse_cmdline")>>)
             ELSE IF output_direct = 1
             THEN parse_options(args, k + 1, [config EXCEPT !.asm = option],
                                (output_direct * 2) % 256)
             ELSE parse_options(args, k + 1,
                                [config EXCEPT !.src = option,
                                               !.asm = IF output_direct = 0
                                                       THEN replace_ql(option) ELSE @],
                                output_direct)

\* Parser::parse_cmdline, parser.rs:49
parse_cmdline(args) ==
    IF Len(args) < 1
    THEN CmdlineFail("InvalidArgs", <<>>)
    ELSE parse_options(args, 1, Config_new, 0)

MaxArgs == 5

\* The arguments of the command lines tried: flags known and unknown, a
\* source file that exists, output paths.
Arguments ==
    { <<"-", "o">>, <<"-", "O1">>, <<"-", "x">>, <<"-", "-", "bogus">>, <<"-", "-", "help">>,
      <<"main", ".ql">>, <<"temp", ".s">>, <<"out", ".s">> }

InitCmdline ==
    \E n \in 0..MaxArgs : \E args \in [1..n -> Arguments] : Argument("args", args)

\* Parser::parse_cmdline(args)
ParseCmdline ==
    /\ op.kind = "args"
    /\ op' = [op EXCEPT !.kind = "parse_cmdline", !.ret = parse_cmdline(op.m)]
    /\ diags' = diags \o parse_cmdline(op.m).reported
    /\ UNCHANGED <<ast_vars, phase, imports, infer_vars>>

NextCmdline == ParseCmdline

SpecCmdline == InitCmdline /\ [][NextCmdline]_vars

IsOption(arg) == starts_with(arg, <<"-">>)

\* Argument i of args is the path that follows a `-o`.
FollowsOutputFlag(args, i) == i > 1 /\ args[i - 1] = <<"-", "o">> /\ ~IsOption(args[i])

\* The positions of the source paths of args: the arguments that are neither
\* options nor the path of a `-o`.
SourcePaths(args) == {i \in 1..Len(args) : ~IsOption(args[i]) /\ ~FollowsOutputFlag(args, i)}

OutputPaths(args) == {i \in 1..Len(args) : FollowsOutputFlag(args, i)}

\* C18: on a command line of one source path and any number of `-o` flags
\* that parse_cmdline accepts, the source is that path and the output path is
\* the argument after the last `-o` that has one, wherever the pair stands;
\* without such a pair the output path is the source path with `.ql`
\* replaced by `.s`.
C18_OutputPath ==
    ( /\ op.kind = "parse_cmdline"
      /\ op.ret.tag = "Some"
      /\ \A i \in 1..Len(op.m) : IsOption(op.m[i]) => op.m[i] = <<"-", "o">>
      /\ Cardinality(SourcePaths(op.m)) = 1 )
    => LET args == op.m
           source == args[CHOOSE i \in SourcePaths(args) : TRUE]
           outputs == OutputPaths(args)
       IN  /\ op.ret.config.src = source
           /\ op.ret.config.asm =
                IF outputs = {}
                THEN replace_ql(source)
                ELSE args[CHOOSE i \in outputs : \A j \in outputs : j <= i]

\* C19: parse_cmdline returns the error NoSuchArg on a command line with an
\* unrecognised `-` or `--` option, and NoFile on one that names no source
\* file.
C19_CmdlineErrors ==
    op.kind = "parse_cmdline" =>
        LET args == op.m
        IN  /\ (\E i \in 1..Len(args) : args[i] \in {<<"-", "x">>, <<"-", "-", "bogus">>})
                    => (op.ret.tag = "Err" /\ op.ret.err = "NoSuchArg")
            /\ ( /\ \A i \in 1..Len(args) : args[i] \notin {<<"-", "x">>, <<"-", "-", "bogus">>}
                 /\ \A i \in 1..Len(args) : IsOption(args[i]) )
                    => (op.ret.tag = "Err" /\ op.ret.err = "NoFile")

----------------------------------------------------------------------------
(* The parser's failure model: Parser::parse, parse_module, parse_function,
   src/src/parser.rs. The lexer is the sequence of the tokens of the file and
   a position in it.  The text of a token is known by its position only:
   the identifier after a `:` is taken to name a type, the identifiers of an
   attribute list to name attributes, and a digit to be a number.  The
   sources of SpecParse are made of the tokens of `Tokens`.  The result of
   a production that is looked at more than once is bound by
   `x \in { production }`, so that it is computed once. *)

Tokens == {"Module", "Function", "Identifier", "OParenth", "CParenth", "OCurly", "CCurly",
           "Let", "Assign", "Digit"}

\* self.lexer.token: None at the end of the file
token(toks, pos) == IF pos <= Len(toks) THEN toks[pos] ELSE None

\* self.lexer.is_token(t), lexer.rs:213
is_token(toks, pos, t) == token(toks, pos) # None /\ token(toks, pos) = t

\* A production's result: Ok or Err(kind), the lexer's position after it,
\* whether it panicked, whether one of its loops came back to the state it
\* started an iteration in, and the expressions it built.
Parsed(pos) ==
    [ok |-> TRUE, err |-> "", pos |-> pos, panic |-> FALSE, diverge |-> FALSE, expr |-> <<>>]

Failed(kind, pos) ==
    [ok |-> FALSE, err |-> kind, pos |-> pos, panic |-> FALSE, diverge |-> FALSE, expr |-> <<>>]

Panicked(pos) ==
    [ok |-> FALSE, err |-> "panic", pos |-> pos, panic |-> TRUE, diverge |-> FALSE, expr |-> <<>>]

\* A loop whose iteration neither consumed a token nor left the loop: it
\* runs for ever.
Diverged(pos) ==
    [ok |-> FALSE, err |-> "diverge", pos |-> pos, panic |-> FALSE, diverge |-> TRUE, expr |-> <<>>]

\* An expression was built.
ParsedExpr(pos, expr) == [Parsed(pos) EXCEPT !.expr = <<expr>>]

\* Lexer::consume, lexer.rs:389-404: nothing at the end of the file, the
\* assertion when the current token is not the expected one.
consume(toks, pos, expected) ==
    IF token(toks, pos) = None
    THEN Parsed(pos)
    ELSE IF token(toks, pos) # expected
    THEN Panicked(pos)
    ELSE Parsed(pos + 1)

\* self.lexer.identifier() of the token at pos: the text is known by where
\* the token stands in the file.
VarAt(pos) == Node("Var", <<pos>>, Bottom, <<>>, <<>>, <<>>)

RECURSIVE parse_expr(_, _)
RECURSIVE parse_call_args(_, _, _)

\* The loop over the arguments of a call, parser.rs:358-376: the position it
\* leaves the lexer at and the arguments, or the error it returns.
parse_call_args(toks, pos, args) ==
    IF is_token(toks, pos, "CParenth")
    THEN [Parsed(pos) EXCEPT !.expr = args]
    ELSE CHOOSE ret \in
            { IF expr.panic \/ expr.diverge
              THEN expr
              ELSE IF ~expr.ok
              THEN [Parsed(expr.pos) EXCEPT !.expr = args]
              ELSE IF ~(is_token(toks, expr.pos, "Comma") \/ is_token(toks, expr.pos, "CParenth"))
              THEN Failed("ExpectedComma", expr.pos)
              ELSE IF ~is_token(toks, expr.pos, "Comma") /\ expr.pos = pos
              THEN Diverged(pos)
              ELSE parse_call_args(toks,
                                   IF is_token(toks, expr.pos, "Comma")
                                   THEN expr.pos + 1 ELSE expr.pos,
                                   args \o expr.expr) :
              expr \in { parse_expr(toks, pos) } } : TRUE

\* parser.rs:395-478: the operator after a name and the right-hand side.
parse_binary(toks, name, pos) ==
    IF ~( \/ is_token(toks, pos, "Add") \/ is_token(toks, pos, "Sub")
          \/ is_token(toks, pos, "Mul") \/ is_token(toks, pos, "Div") )
    THEN IF is_token(toks, pos, "CParenth")
         THEN ParsedExpr(pos, VarAt(name))
         ELSE Failed("ExpectedOpcode", pos)
    ELSE LET opcode == token(toks, pos)
             rhs == pos + 1
         IN  IF is_token(toks, rhs, "Identifier")
             THEN ParsedExpr(rhs + 1, BinaryExpr(VarAt(name), opcode, VarAt(rhs)))
             ELSE IF is_token(toks, rhs, "Digit")
             THEN ParsedExpr(rhs + 1, BinaryExpr(VarAt(name), opcode, Digit))
             ELSE IF is_token(toks, rhs, "OParenth")
             THEN CHOOSE ret \in
                    { IF ~subexpr.ok
                      THEN subexpr
                      ELSE IF ~is_token(toks, subexpr.pos, "CParenth")
                      THEN Failed("ExpectedParenth", subexpr.pos)
                      ELSE ParsedExpr(subexpr.pos + 1,
                                      BinaryExpr(VarAt(name), opcode, subexpr.expr[1])) :
                      subexpr \in { parse_expr(toks, rhs + 1) } } : TRUE
             ELSE Failed("ExpectedExpr", rhs)

\* Parser::parse_expr, parser.rs:331
parse_expr(toks, pos) ==
    IF is_token(toks, pos, "Digit")
    THEN ParsedExpr(pos + 1, Digit)
    ELSE IF is_token(toks, pos, "Identifier") \/ is_token(toks, pos, "Sub")
    THEN LET name == IF is_token(toks, pos, "Sub") THEN pos + 1 ELSE pos
             named == consume(toks, name, "Identifier")
         IN  IF named.panic
             THEN named
             ELSE IF is_token(toks, named.pos, "OParenth")
             THEN CHOOSE ret \in
                    { IF ~args.ok
                      THEN args
                      ELSE IF ~is_token(toks, args.pos, "CParenth")
                      THEN Failed("ExpectedParenth", args.pos)
                      ELSE IF ~is_token(toks, args.pos + 1, "Semicolon")
                      THEN Failed("ExpectedSemicolon", args.pos + 1)
                      ELSE ParsedExpr(args.pos + 2,
                                      Node("FnCall", <<name>>, Bottom, args.expr, <<>>, <<>>)) :
                      args \in { parse_call_args(toks, named.pos + 1, <<>>) } } : TRUE
             ELSE IF is_token(toks, named.pos, "Semicolon")
             THEN ParsedExpr(named.pos + 1, VarAt(name))
             ELSE parse_binary(toks, name, named.pos)
    ELSE Failed("ExpectedExpr", pos)

\* Parser::parse_let, parser.rs:636
parse_let(toks, pos) ==
    IF ~is_token(toks, pos, "Let")
    THEN Failed("ExpectedLet", pos)
    ELSE IF ~is_token(toks, pos + 1, "Identifier")
    THEN Failed("ExpectedLet", pos + 1)
    ELSE IF is_token(toks, pos + 2, "Colon") /\ ~is_token(toks, pos + 3, "Identifier")
    THEN Failed("ExpectedType", pos + 3)
    ELSE LET typed == IF is_token(toks, pos + 2, "Colon") THEN pos + 4 ELSE pos + 2
         IN  IF ~is_token(toks, typed, "Assign")
             THEN Failed("ExpectedAssign", typed)
             ELSE parse_expr(toks, typed + 1)

\* Parser::parse_return, parser.rs:272-286, called at a `return`
parse_return(toks, pos) == parse_expr(toks, pos + 1)

RECURSIVE parse_function_body(_, _)
\* The loop over the body of a function and the closing brace after it,
\* parser.rs:244-260
parse_function_body(toks, pos) ==
    IF is_token(toks, pos, "CCurly")
    THEN Parsed(pos + 1)
    ELSE IF is_token(toks, pos, "Let") \/ is_token(toks, pos, "Return")
    THEN CHOOSE ret \in
            { IF ~expr.ok
              THEN expr
              ELSE IF expr.pos = pos
              THEN Diverged(pos)
              ELSE parse_function_body(toks, expr.pos) :
              expr \in { IF is_token(toks, pos, "Let")
                         THEN parse_let(toks, pos) ELSE parse_return(toks, pos) } } : TRUE
    ELSE IF token(toks, pos) # None
    THEN parse_function_body(toks, pos + 1)
    ELSE Parsed(pos)

RECURSIVE parse_function_params(_, _)
\* The loop over the parameters of a function, parser.rs:189-217
parse_function_params(toks, pos) ==
    IF is_token(toks, pos, "CParenth")
    THEN Parsed(pos)
    ELSE IF is_token(toks, pos, "Identifier") /\ ~is_token(toks, pos + 1, "Colon")
    THEN Failed("ExpectedParamType", pos + 1)
    ELSE IF is_token(toks, pos, "Identifier") /\ ~is_token(toks, pos + 2, "Identifier")
    THEN Failed("ExpectedParamType", pos + 2)
    ELSE LET param == IF is_token(toks, pos, "Identifier") THEN pos + 3 ELSE pos
         IN  IF ~is_token(toks, param, "Comma") /\ ~is_token(toks, param, "CParenth")
             THEN Failed("ExpectedAttr", param)
             ELSE IF ~is_token(toks, param, "Comma") /\ param = pos
             THEN Diverged(pos)
             ELSE parse_function_params(toks, IF is_token(toks, param, "Comma")
                                              THEN param + 1 ELSE param)

RECURSIVE parse_attribute_list(_, _)
\* The loop over the attributes and the closing bracket after it,
\* parser.rs:137-153
parse_attribute_list(toks, pos) ==
    IF is_token(toks, pos, "CBracket")
    THEN Parsed(pos + 1)
    ELSE LET attr == IF is_token(toks, pos, "Identifier") THEN pos + 1 ELSE pos
         IN  IF ~is_token(toks, attr, "Comma") /\ ~is_token(toks, attr, "CBracket")
             THEN Failed("ExpectedAttr", attr)
             ELSE IF ~is_token(toks, attr, "Comma") /\ attr = pos
             THEN Diverged(pos)
             ELSE parse_attribute_list(toks, IF is_token(toks, attr, "Comma")
                                             THEN attr + 1 ELSE attr)

\* Parser::parse_attributes, parser.rs:118-158
parse_attributes(toks, pos) ==
    IF ~is_token(toks, pos, "Hash")
    THEN Failed("ExpectedAttr", pos)
    ELSE LET open == IF is_token(toks, pos + 1, "Bang") THEN pos + 2 ELSE pos + 1
         IN  IF ~is_token(toks, open, "OBracket")
             THEN Failed("ExpectedAttr", open)
             ELSE IF ~is_token(toks, open + 1, "Identifier")
             THEN Failed("ExpectedAttr", open + 1)
             ELSE parse_attribute_list(toks, open + 1)

\* parser.rs:219-260: the return type, the body and the closing brace.
parse_function_tail(toks, pos) ==
    LET output_type == IF ~is_token(toks, pos, "Colon") THEN pos
                       ELSE IF is_token(toks, pos + 1, "Bang") THEN pos + 2 ELSE pos + 1
    IN  IF is_token(toks, pos, "Colon") /\ ~is_token(toks, output_type, "Identifier")
        THEN Failed("ExpectedFnReturnType", output_type)
        ELSE LET body == IF is_token(toks, pos, "Colon") THEN output_type + 1 ELSE pos
             IN  IF ~is_token(toks, body, "OCurly")
                 THEN Failed("ExpectedFnBody", body)
                 ELSE parse_function_body(toks, body + 1)

\* parser.rs:168-217: `fn`, the name and the parameters.
parse_function_head(toks, pos) ==
    IF ~is_token(toks, pos, "Function")
    THEN Failed("ExpectedFn", pos)
    ELSE IF ~is_token(toks, pos + 1, "Identifier")
    THEN Failed("ExpectedFnName", pos + 1)
    ELSE IF ~is_token(toks, pos + 2, "OParenth")
    THEN Failed("ExpectedFnArgs", pos + 2)
    ELSE CHOOSE ret \in
            { IF ~params.ok THEN params ELSE parse_function_tail(toks, params.pos + 1) :
              params \in { parse_function_params(toks, pos + 3) } } : TRUE

\* Parser::parse_function, parser.rs:161
parse_function(toks, pos) ==
    IF is_token(toks, pos, "Hash")
    THEN CHOOSE ret \in
            { IF ~attrs.ok THEN attrs ELSE parse_function_head(toks, attrs.pos) :
              attrs \in { parse_attributes(toks, pos) } } : TRUE
    ELSE parse_function_head(toks, pos)

RECURSIVE parse_module_functions(_, _)
\* The loop over the functions of a module and the closing brace after it,
\* parser.rs:692-701: a function that fails is dropped and one token skipped.
parse_module_functions(toks, pos) ==
    IF is_token(toks, pos, "CCurly")
    THEN Parsed(pos + 1)
    ELSE CHOOSE ret \in
            { IF function.panic \/ function.diverge
              THEN function
              ELSE IF function.ok
              THEN IF function.pos = pos
                   THEN Diverged(pos)
                   ELSE parse_module_functions(toks, function.pos)
              ELSE IF token(toks, function.pos) = None
              THEN Panicked(function.pos)
              ELSE parse_module_functions(toks, function.pos + 1) :
              function \in { parse_function(toks, pos) } } : TRUE

\* Parser::parse_module, parser.rs:672
parse_module(toks, pos) ==
    IF ~is_token(toks, pos, "Module")
    THEN Failed("ExpectedMod", pos)
    ELSE LET named == IF is_token(toks, pos + 1, "Identifier") THEN pos + 2 ELSE pos + 1
         IN  IF ~is_token(toks, named, "OCurly")
             THEN Failed("ExpectedMod", named)
             ELSE parse_module_functions(toks, named + 1)

RECURSIVE parse_loop(_, _, _)
\* The loop of Parser::parse from the lexer's position on, parser.rs:733-766.
\* st holds seen_errors, the errors reported and the functions appended.
parse_loop(toks, pos, st) ==
    IF token(toks, pos) = None
    THEN [st EXCEPT !.ret = IF st.seen_errors THEN "ParseError" ELSE "Ok"]
    ELSE IF is_token(toks, pos, "Module")
    THEN CHOOSE ret \in
            { IF module.panic
              THEN [st EXCEPT !.ret = "panic"]
              ELSE IF module.diverge \/ module.pos = pos
              THEN [st EXCEPT !.ret = "diverge"]
              ELSE IF module.ok
              THEN parse_loop(toks, module.pos, st)
              ELSE parse_loop(toks, module.pos,
                              [st EXCEPT !.seen_errors = TRUE,
                                         !.reported = Append(@, [kind |-> module.err, at |-> pos])]) :
              module \in { parse_module(toks, pos) } } : TRUE
    ELSE IF is_token(toks, pos, "Hash") \/ is_token(toks, pos, "Function")
    THEN CHOOSE ret \in
            { IF f.panic
              THEN [st EXCEPT !.ret = "panic"]
              ELSE IF f.diverge \/ f.pos = pos
              THEN [st EXCEPT !.ret = "diverge"]
              ELSE IF f.ok
              THEN parse_loop(toks, f.pos, [st EXCEPT !.appended = Append(@, pos)])
              ELSE parse_loop(toks, f.pos,
                              [st EXCEPT !.seen_errors = TRUE,
                                         !.reported = Append(@, [kind |-> f.err, at |-> pos])]) :
              f \in { parse_function(toks, pos) } } : TRUE
    ELSE parse_loop(toks, pos + 1, st)

\* Parser::parse, parser.rs:709
parse(src, toks) ==
    IF ~ends_with(src, <<".ql">>)
    THEN [ret |-> "ParseError", seen_errors |-> FALSE, reported |-> <<>>, appended |-> <<>>]
    ELSE parse_loop(toks, 1, [ret |-> "none", seen_errors |-> FALSE, reported |-> <<>>,
                              appended |-> <<>>])

MaxItems == 3

\* fn f() { let x = 1 }
GoodFn == <<"Function", "Identifier", "OParenth", "CParenth", "OCurly",
            "Let", "Identifier", "Assign", "Digit", "CCurly">>

\* fn () { }: the name is missing
BadHeadFn == <<"Function", "OParenth", "CParenth", "OCurly", "CCurly">>

\* fn f() { let x 1 }: the let in the body has no `=`
BadBodyFn == <<"Function", "Identifier", "OParenth", "CParenth", "OCurly",
               "Let", "Identifier", "Digit", "CCurly">>

\* module m { ... }
InModule(fn) == <<"Module", "Identifier", "OCurly">> \o fn \o <<"CCurly">>

\* module m n { }: no `{` after the name
BadModule == <<"Module", "Identifier", "Identifier", "OCurly", "CCurly">>

\* The items a source file is made of, and whether a production fails in each.
Items ==
    { [toks |-> GoodFn, fails |-> FALSE, top_fn |-> TRUE],
      [toks |-> BadHeadFn, fails |-> TRUE, top_fn |-> FALSE],
      [toks |-> BadBodyFn, fails |-> TRUE, top_fn |-> FALSE],
      [toks |-> InModule(GoodFn), fails |-> FALSE, top_fn |-> FALSE],
      [toks |-> InModule(BadHeadFn), fails |-> TRUE, top_fn |-> FALSE],
      [toks |-> InModule(BadBodyFn), fails |-> TRUE, top_fn |-> FALSE],
      [toks |-> BadModule, fails |-> TRUE, top_fn |-> FALSE] }

RECURSIVE Concat(_, _)
Concat(items, k) == IF k > Len(items) THEN <<>> ELSE items[k].toks \o Concat(items, k + 1)

InitParse ==
    \E n \in 0..MaxItems : \E items \in [1..n -> Items] :
        \E src \in {<<"main", ".ql">>, <<"main", ".s">>} :
            Argument("source", [src |-> src, items |-> items, toks |-> Concat(items, 1)])

\* parser.parse(&src)
Parse ==
    /\ op.kind = "source"
    /\ \E parsed \in { parse(op.m.src, op.m.toks) } :
            /\ op' = [op EXCEPT !.kind = "parse", !.ret = parsed]
            /\ diags' = diags \o [i \in 1..Len(parsed.reported) |->
                                     Diag(parsed.reported[i].kind, <<>>, <<>>, "parse")]
    /\ UNCHANGED <<ast_vars, phase, imports, infer_vars>>

NextParse == Parse

SpecParse == InitParse /\ [][NextParse]_vars

\* C20: parse returns Err(ParseError) if and only if a production failed
\* somewhere in the file, at top level, in a function body or in a function
\* of a nested module; every such failure is reported; and the top-level loop
\* goes on after a failure: the functions that follow are still parsed.
C20_ParseFailureModel ==
    (op.kind = "parse" /\ ends_with(op.m.src, <<".ql">>)) =>
        LET items == op.m.items
            failing == {i \in 1..Len(items) : items[i].fails}
            top_fns == {i \in 1..Len(items) : items[i].top_fn}
        IN  /\ op.ret.ret = "ParseError" <=> failing # {}
            /\ op.ret.ret = "Ok" <=> failing = {}
            /\ Len(op.ret.reported) >= Cardinality(failing)
            /\ Len(op.ret.appended) = Cardinality(top_fns)

----------------------------------------------------------------------------
(* The type lattice: Type::bigtype / Type::smalltype, src/src/types.rs *)

InitTypes == \E t1 \in Type, t2 \in Type, t3 \in Type : Argument("types", <<t1, t2, t3>>)

\* Type::bigtype and Type::smalltype applied to the three types, in the
\* combinations of the lattice laws.
ApplyLattice ==
    /\ op.kind = "types"
    /\ LET a == op.m[1]
           b == op.m[2]
           c == op.m[3]
       IN  op' = [op EXCEPT !.kind = "lattice",
                            !.ret = [big_ab |-> bigtype(a, b),
                                     big_ba |-> bigtype(b, a),
                                     small_ab |-> smalltype(a, b),
                                     big_a_bc |-> bigtype(a, bigtype(b, c)),
                                     big_ab_c |-> bigtype(bigtype(a, b), c)]]
    /\ UNCHANGED <<ast_vars, phase, diags, imports, infer_vars>>

NextTypes == ApplyLattice

SpecTypes == InitTypes /\ [][NextTypes]_vars

\* Bottom < Bit < Qbit < Rad < F64
LatticeOrder == <<Bottom, Bit, Qbit, Rad, F64>>

Rank(t) == CHOOSE i \in 1..Len(LatticeOrder) : LatticeOrder[i] = t

\* C21: in the order Bottom < Bit < Qbit < Rad < F64, bigtype(a, b) is the
\* larger and smalltype(a, b) the smaller of a and b, bigtype is commutative
\* and bigtype is associative.
C21_TypeLattice ==
    op.kind = "lattice" =>
        LET a == op.m[1]
            b == op.m[2]
        IN  /\ op.ret.big_ab = IF Rank(a) >= Rank(b) THEN a ELSE b
            /\ op.ret.small_ab = IF Rank(a) <= Rank(b) THEN a ELSE b
            /\ op.ret.big_ab = op.ret.big_ba
            /\ op.ret.big_a_bc = op.ret.big_ab_c

\* The lattice operations were applied to three different types, the
\* largest in the middle.
C21_Witness ==
    /\ op.kind = "lattice"
    /\ op.m = <<Qbit, F64, Bit>>
    /\ op.ret.big_ab = F64
    /\ op.ret.small_ab = Qbit
    /\ op.ret.big_a_bc = F64

----------------------------------------------------------------------------
(* Calls, let chains and lookups during inference: src/src/inference.rs *)

\* The call sites among the instructions of the monolith, with the function
\* they stand in.
CallSites ==
    { [fn |-> Cell(modules, mono[j]).name, call |-> Cell(modules, mono[j]).body[k]] :
        <<j, k>> \in { jk \in (1..Len(mono)) \X (1..MaxBody + 1) :
                        /\ jk[2] <= Len(Cell(modules, mono[jk[1]]).body)
                        /\ Cell(modules, mono[jk[1]]).body[jk[2]].tag = "FnCall" } }

\* C22: when inference is over, every call whose name is the mangled name of
\* a function of the program, defined before or after the caller, with a
\* declared or an inferred output type, has the callee's output type, and no
\* UnknownType was reported for the call.
C22_CallsResolved ==
    phase = "done" =>
        \A site \in CallSites : \A callee \in Functions :
            callee.name = site.call.name =>
                /\ site.call.ty = callee.output_type
                /\ \A d \in 1..Len(diags) :
                        ~( /\ diags[d].kind = "UnknownType"
                           /\ diags[d].name = site.call.name
                           /\ diags[d].fn = site.fn )

\* The names v1, v2, ... of a chain of lets.
ChainNames == <<"x", "y", "z", "w", "v">>

MaxChain == 3

\* let v1: T = first; let v2 = v1; ...; let vn = v(n-1)
LetChain(ty, first, n) ==
    [i \in 1..n |-> IF i = 1 THEN Let(ChainNames[i], ty, first)
                    ELSE Let(ChainNames[i], Bottom, Var(ChainNames[i - 1], Bottom))]

\* fn a(p: T) [: T] { let x: T = p | literal of type T; let y = x; ... }
InitChain ==
    /\ \E ty \in {Bit, Qbit, Rad, F64}, n \in 1..MaxChain, declared_output \in BOOLEAN,
          with \in {"alone", "after", "before"} :
            \E first \in { Var("p", Bottom) } \cup
                         (IF ty = F64 THEN { Digit } ELSE {}) \cup
                         (IF ty = Qbit THEN { QbitLit } ELSE {}) :
                modules = ParsedProgram(<< VarAST("p", ty) >>,
                                        IF declared_output THEN ty ELSE Bottom,
                                        LetChain(ty, first, n), with)
    /\ mono = <<>>
    /\ merges = 0
    /\ phase = "parsed"
    /\ op = NoOp
    /\ diags = <<>>
    /\ imports = <<>>
    /\ InferIdle

SpecChain == InitChain /\ [][NextInfer]_vars

\* The function a of the program.
FunctionA ==
    CHOOSE function \in Functions : function.name[Len(function.name)] = "a"

\* C23: a let whose variable gets typed while its instruction is processed
\* is in the local table before the next instruction is processed: after
\* inference of `let v1: T = ...; let v2 = v1; ...; let vn = v(n-1)`, of any
\* length, every vi has type T and no diagnostic was reported.
C23_LetChainTyped ==
    phase = "done" =>
        /\ \A i \in 1..Len(FunctionA.body) :
                /\ FunctionA.body[i].ty = FunctionA.body[1].ty
                /\ FunctionA.body[i].ty # Bottom
        /\ diags = <<>>
        /\ result = "Ok"

\* A chain of three lets went through inference.
C23_Witness ==
    /\ phase = "done"
    /\ Len(FunctionA.body) >= 3
    /\ FunctionA.body[3].ty = Qbit
    /\ FunctionA.body[3].a[1].ty = Qbit

\* The variable references that are instructions of function a on their
\* own, as indices of its body, whose name is no parameter and has no let
\* in an earlier instruction.
EarlyReferences ==
    { i \in 1..Len(FunctionA.body) :
        /\ FunctionA.body[i].tag = "Var"
        /\ \A k \in 1..Len(FunctionA.params) :
                FunctionA.params[k].name # FunctionA.body[i].name
        /\ \A j \in 1..(i - 1) :
                ~( /\ FunctionA.body[j].tag = "Let"
                   /\ FunctionA.body[j].name = FunctionA.body[i].name ) }

\* C29: a variable reference in instruction i gets a type from the local
\* table only if a typed let of that name stands in an instruction before
\* i: a reference to a name that is no parameter and whose only let comes
\* later in the body stays untyped and is reported as UnknownType.
C29_NoUseBeforeDefinition ==
    phase = "done" =>
        \A i \in EarlyReferences :
            /\ FunctionA.body[i].ty = Bottom
            /\ \E d \in 1..Len(diags) :
                    /\ diags[d].kind = "UnknownType"
                    /\ diags[d].name = FunctionA.body[i].name

\* fn a(p: qbit [, x: Tx]) { let x: T1 = p; let x: T2 = p; x | let y = x | [x, 1] }
InitShadow ==
    /\ \E t1 \in Type \ {Bottom}, t2 \in Type \ {Bottom},
          params \in { << VarAST("p", Qbit) >> } \cup
                     { << VarAST("p", Qbit), VarAST("x", tx) >> : tx \in Type \ {Bottom} },
          reference \in { Var("x", Bottom), Let("y", Bottom, Var("x", Bottom)),
                          Tensor(<< Var("x", Bottom), Digit >>) } :
            modules = ParsedProgram(params, Bottom,
                                    << Let("x", t1, Var("p", Bottom)),
                                       Let("x", t2, Var("p", Bottom)),
                                       reference >>, "alone")
    /\ mono = <<>>
    /\ merges = 0
    /\ phase = "parsed"
    /\ op = NoOp
    /\ diags = <<>>
    /\ imports = <<>>
    /\ InferIdle

SpecShadow == InitShadow /\ [][NextInfer]_vars

\* What the instruction at hand becomes and what is found missing, under
\* given iteration orders of the three tables.
Outcome(param_st, local_st, function_st) ==
    LET first == infer_expr(Cell(modules, mono[fn_idx]).body[instr_idx])
    IN  IF first.r = None \/ first.r = Bottom
        THEN infer_from_table(first.e, param_st, local_st, function_st)
        ELSE [e |-> first.e, r |-> Typed]

\* The references to `name` in an expression tree, as the set of their types.
RECURSIVE ReferenceTypes(_, _)
ReferenceTypes(expr, name) ==
    (IF expr.tag = "Var" /\ expr.name = name THEN {expr.ty} ELSE {})
    \cup UNION { ReferenceTypes(expr.a[i], name) : i \in 1..Len(expr.a) }
    \cup UNION { ReferenceTypes(expr.b[i], name) : i \in 1..Len(expr.b) }
    \cup UNION { ReferenceTypes(expr.c[i], name) : i \in 1..Len(expr.c) }

\* C30: for a fixed program the types inference assigns do not depend on
\* the iteration order of the symbol-table sets: whatever the orders, an
\* instruction comes out the same, also when two lets of the function bind
\* one name with different types; and a reference to a name that is a typed
\* parameter gets the parameter's type, whatever the locals of that name.
C30_Deterministic ==
    phase = "infer_instr" =>
        \A p1 \in Orders(parameter_table), l1 \in Orders(local_var_table),
           f1 \in Orders(function_table) :
            /\ \A p2 \in Orders(parameter_table), l2 \in Orders(local_var_table),
                  f2 \in Orders(function_table) :
                    Outcome(p1, l1, f1) = Outcome(p2, l2, f2)
            /\ \A param \in parameter_table :
                    ReferenceTypes(Outcome(p1, l1, f1).e, param.name) \subseteq {param.ty}

----------------------------------------------------------------------------
(* The lexer: src/src/lexer.rs.  A buffer is a sequence of one-character   *)
(* strings; indices are the zero-based indices of the source.              *)

is_ascii_whitespace(c) == c \in {" ", "\t", "\n", "\r"}

is_ascii_digit(c) == c \in {"0", "1", "2", "3", "4", "5", "6", "7", "8", "9"}

is_ascii_alphanumeric(c) ==
    \/ is_ascii_digit(c)
    \/ c \in {"a", "b", "c", "d", "e", "f", "g", "h", "i", "j", "k", "l", "m",
              "n", "o", "p", "q", "r", "s", "t", "u", "v", "w", "x", "y", "z",
              "A", "B", "C", "D", "E", "F", "G", "H", "I", "J", "K", "L", "M",
              "N", "O", "P", "Q", "R", "S", "T", "U", "V", "W", "X", "Y", "Z"}

\* Lexer::new, lexer.rs:138-149, with Pointer::new, lexer.rs:80-87.  `ret`
\* is what the last call returned, `some` what next_line returned, `panic`
\* whether an index outside the buffer was read.
Lexer_new ==
    [start |-> 0, prev |-> 0, current |-> 0, end |-> 0, token |-> None,
     ret |-> None, some |-> FALSE, panic |-> FALSE]

\* buffer[i] and buffer[i..j]
at(buffer, i) == buffer[i + 1]
slice(buffer, lhs, rhs) == SubSeq(buffer, lhs + 1, rhs)

\* The index-out-of-bounds panic of a Vec.
OutOfBounds(lexer) == [lexer EXCEPT !.panic = TRUE]

\* Pointer::forward, lexer.rs:100-107
forward(lexer) ==
    [lexer EXCEPT !.start = lexer.end, !.prev = lexer.end, !.current = lexer.end]

\* Pointer::reset, lexer.rs:110-117
reset(lexer) == [lexer EXCEPT !.prev = lexer.current]

RECURSIVE line_end(_, _)
\* lexer.rs:415-426: the loop of next_line looking for the newline.
line_end(buffer, lexer) ==
    IF lexer.end >= Len(buffer)
    THEN OutOfBounds(lexer)
    ELSE IF at(buffer, lexer.end) # "\n"
    THEN IF lexer.end = Len(buffer) - 1
         THEN [lexer EXCEPT !.some = TRUE]
         ELSE line_end(buffer,
                       [lexer EXCEPT !.start = IF is_ascii_whitespace(at(buffer, lexer.start))
                                               THEN @ + 1 ELSE @,
                                     !.end = @ + 1])
    ELSE [lexer EXCEPT !.end = @ + 1, !.some = TRUE]

\* Lexer::next_line, lexer.rs:408-432
next_line(buffer, lexer) ==
    IF lexer.end > Len(buffer)
    THEN OutOfBounds(lexer)
    ELSE IF lexer.end = Len(buffer)
    THEN [lexer EXCEPT !.some = FALSE]
    ELSE line_end(buffer, forward(lexer))

RECURSIVE scan_while(_, _, _)
\* `while <self.current() is one of chars> { self.ptr.current += 1 }`
scan_while(buffer, lexer, chars) ==
    IF lexer.current >= Len(buffer)
    THEN OutOfBounds(lexer)
    ELSE IF at(buffer, lexer.current) \in chars
    THEN scan_while(buffer, [lexer EXCEPT !.current = @ + 1], chars)
    ELSE lexer

RECURSIVE scan_until(_, _, _)
\* `while self.current() != c { self.ptr.current += 1 }`
scan_until(buffer, lexer, c) ==
    IF lexer.current >= Len(buffer)
    THEN OutOfBounds(lexer)
    ELSE IF at(buffer, lexer.current) # c
    THEN scan_until(buffer, [lexer EXCEPT !.current = @ + 1], c)
    ELSE lexer

\* lexer.rs:296-314
single_token(c) ==
    CASE c = "#" -> "Hash"
      [] c = "[" -> "OBracket"
      [] c = "]" -> "CBracket"
      [] c = "{" -> "OCurly"
      [] c = "}" -> "CCurly"
      [] c = "(" -> "OParenth"
      [] c = ")" -> "CParenth"
      [] c = "," -> "Comma"
      [] c = ":" -> "Colon"
      [] c = ";" -> "Semicolon"
      [] c = "!" -> "Bang"
      [] c = "=" -> "Assign"
      [] c = "+" -> "Add"
      [] c = "-" -> "Sub"
      [] c = "*" -> "Mul"
      [] c = "/" -> "Div"
      [] OTHER -> "Multi"

\* lexer.rs:361-369
keyword(identifier) ==
    CASE identifier = <<"f", "n">> -> "Function"
      [] identifier = <<"r", "e", "t", "u", "r", "n">> -> "Return"
      [] identifier = <<"c", "o", "n", "s", "t">> -> "Const"
      [] identifier = <<"e", "x", "t", "e", "r", "n">> -> "Extern"
      [] identifier = <<"m", "o", "d", "u", "l", "e">> -> "Module"
      [] identifier = <<"l", "e", "t">> -> "Let"
      [] OTHER -> "Identifier"

\* `self.token = Some(t); return Ok(self.token)`
Returns(lexer, t) == [lexer EXCEPT !.token = t, !.ret = t]

\* lexer.rs:333-377: a digit, a qubit, a standalone minus, a word, or any
\* other byte taken as an identifier of one byte.
multi_token(buffer, lexer, single) ==
    IF lexer.current >= Len(buffer)
    THEN OutOfBounds(lexer)
    ELSE IF is_ascii_digit(at(buffer, lexer.current))
    THEN LET first == [lexer EXCEPT !.current = @ + 1]
         IN  IF first.current >= Len(buffer)
             THEN OutOfBounds(first)
             ELSE IF at(buffer, first.current) = "q"
             THEN LET closed == scan_until(buffer, first, ")")
                  IN  IF closed.panic THEN closed
                      ELSE [closed EXCEPT !.current = @ + 1, !.ret = "Qbit"]
             ELSE LET digits == scan_while(buffer, first,
                                           {"0", "1", "2", "3", "4", "5", "6", "7", "8", "9", "."})
                  IN  IF digits.panic THEN digits ELSE Returns(digits, "Digit")
    ELSE IF single = "Sub"
    THEN Returns(lexer, lexer.token)
    ELSE IF is_ascii_alphanumeric(at(buffer, lexer.current)) \/ at(buffer, lexer.current) = "_"
    THEN LET word == scan_while(buffer, [lexer EXCEPT !.current = @ + 1],
                                { c \in { buffer[i] : i \in 1..Len(buffer) } :
                                    is_ascii_alphanumeric(c) \/ c = "_" })
         IN  IF word.panic THEN word
             ELSE Returns(word, keyword(slice(buffer, word.prev, word.current)))
    ELSE Returns([lexer EXCEPT !.current = @ + 1], "Identifier")

\* lexer.rs:294-331: the token that starts at `current`.
lex_token(buffer, lexer) ==
    LET single == single_token(at(buffer, lexer.current))
        taken == [lexer EXCEPT !.current = @ + 1, !.token = single]
    IN  IF lexer.current >= Len(buffer)
        THEN OutOfBounds(lexer)
        ELSE IF single # "Multi" /\ single # "Sub"
        THEN Returns(taken, single)
        ELSE IF single = "Sub"
        THEN LET number == scan_while(buffer, taken, {" ", "\t", "\n", "\r"})
             IN  IF number.panic THEN number ELSE multi_token(buffer, number, single)
        ELSE multi_token(buffer, lexer, single)

RECURSIVE next_token(_, _)
RECURSIVE skip_whitespace(_, _)

\* lexer.rs:251-263, 276-291: fetch the next line and start over, or
\* return None at the end of the buffer.
refill(buffer, lexer) ==
    LET line == next_line(buffer, lexer)
    IN  IF line.panic THEN line
        ELSE IF ~line.some THEN Returns(line, None)
        ELSE IF line.prev = line.end THEN Returns(line, None)
        ELSE next_token(buffer, line)

\* lexer.rs:248-264: the loop over leading whitespace, then the rest of
\* next_token.
skip_whitespace(buffer, lexer) ==
    IF lexer.current >= Len(buffer)
    THEN OutOfBounds(lexer)
    ELSE IF is_ascii_whitespace(at(buffer, lexer.current))
    THEN LET skipped == [lexer EXCEPT !.current = @ + 1]
         IN  IF skipped.current >= skipped.end
             THEN refill(buffer, skipped)
             ELSE skip_whitespace(buffer, skipped)
    ELSE IF \/ lexer.current >= lexer.end
            \/ starts_with(slice(buffer, lexer.start, Len(buffer)), <<"/", "/">>)
            \/ slice(buffer, lexer.start, lexer.end) = << "\n" >>
            \/ starts_with(slice(buffer, lexer.current, Len(buffer)), <<"/", "/">>)
    THEN refill(buffer, lexer)
    ELSE lex_token(buffer, reset(lexer))

\* Lexer::next_token, lexer.rs:246-378
next_token(buffer, lexer) == skip_whitespace(buffer, lexer)

\* Lexer::identifier, lexer.rs:179-181
identifier(buffer, lexer) == slice(buffer, lexer.prev, lexer.current)

MaxBytes == 3

Bytes == {"a", "1", " ", "\n", "/", ";", "-", "$"}

\* A lexer over a buffer; `tokens` collects what the calls returned, with
\* the range of the buffer each token was read from.
InitLexer ==
    /\ \E n \in 0..MaxBytes : \E buffer \in [1..n -> Bytes] :
            op = [NoOp EXCEPT !.kind = "buffer", !.m = buffer,
                              !.ret = [lexer |-> Lexer_new, tokens |-> <<>>]]
    /\ modules = <<>>
    /\ mono = <<>>
    /\ merges = 0
    /\ phase = "call"
    /\ diags = <<>>
    /\ imports = <<>>
    /\ InferIdle

\* One call of next_token, as long as the last call returned a token.
NextToken ==
    /\ op.kind \in {"buffer", "next_token"}
    /\ ~op.ret.lexer.panic
    /\ op.kind = "next_token" => op.ret.lexer.ret # None
    /\ LET lexer == next_token(op.m, op.ret.lexer)
       IN  op' = [op EXCEPT !.kind = "next_token",
                            !.ret = [lexer |-> lexer,
                                     tokens |-> IF lexer.panic \/ lexer.ret = None
                                                THEN op.ret.tokens
                                                ELSE Append(op.ret.tokens,
                                                            [token |-> lexer.ret,
                                                             prev |-> lexer.prev,
                                                             current |-> lexer.current])]]
    /\ UNCHANGED <<ast_vars, phase, diags, imports, infer_vars>>

NextLexer == NextToken

SpecLexer == InitLexer /\ [][NextLexer]_vars

\* The indices of the bytes of a buffer that belong to a token: neither
\* whitespace nor part of a `//` comment, which runs to the end of its line.
Significant(buffer) ==
    { i \in 0..(Len(buffer) - 1) :
        /\ ~is_ascii_whitespace(at(buffer, i))
        /\ ~\E j \in 0..i :
                /\ j + 1 < Len(buffer)
                /\ at(buffer, j) = "/"
                /\ at(buffer, j + 1) = "/"
                /\ \A k \in j..i : at(buffer, k) # "\n" }

\* The indices the returned tokens were read from.
Covered(tokens) ==
    UNION { tokens[t].prev..(tokens[t].current - 1) : t \in 1..Len(tokens) }

\* C24: for every buffer, also an empty one, one of whitespace or comments
\* only, and one whose last line has no newline, repeated calls of
\* next_token never read the buffer outside its bounds and return the
\* tokens in source order, each read from a range after the one before,
\* and then None, when every byte of a token has been returned.
C24_TokensInOrder ==
    op.kind = "next_token" =>
        /\ ~op.ret.lexer.panic
        /\ \A t \in 1..(Len(op.ret.tokens) - 1) :
                op.ret.tokens[t].current <= op.ret.tokens[t + 1].prev
        /\ op.ret.lexer.ret = None => Significant(op.m) \subseteq Covered(op.ret.tokens)

\* mangle.rs:13, `format!("{}${}", mod_name, fn_name)`, on the bytes of
\* the names.
mangled(mod_name, fn_name) == mod_name \o <<"$">> \o fn_name

\* How often `$` occurs in a name.
Dollars(name) == Cardinality({ i \in 1..Len(name) : name[i] = "$" })

\* C26: the `$` separator cannot come from the source: the text of every
\* Identifier token the lexer returns contains no `$`, so that the name
\* mangled from a module name and that text contains exactly one `$`.
C26_NoDollarFromSource ==
    op.kind = "next_token" =>
        \A t \in 1..Len(op.ret.tokens) :
            op.ret.tokens[t].token = "Identifier" =>
                LET text == slice(op.m, op.ret.tokens[t].prev, op.ret.tokens[t].current)
                IN  /\ Dollars(text) = 0
                    /\ Dollars(mangled(<<"M">>, text)) = 1

----------------------------------------------------------------------------
(* Expressions, assertions and termination of the parser:                  *)
(* src/src/parser.rs over the tokens of src/src/lexer.rs                   *)

MaxOperands == 3

\* The operators next_token returns, lexer.rs:309-312.
Operators == {"Add", "Sub", "Mul", "Div"}

\* e1 op1 e2 op2 ... en ;
Chain(operands, operators) ==
    [k \in 1..(2 * Len(operands)) |->
        IF k = 2 * Len(operands) THEN "Semicolon"
        ELSE IF k % 2 = 1 THEN operands[(k + 1) \div 2]
        ELSE operators[k \div 2]]

\* The chains the lexer returns: a `-` before a digit is part of the
\* number, lexer.rs:325-353.
InitExpr ==
    \E n \in 1..MaxOperands :
        \E operands \in [1..n -> {"Identifier", "Digit"}],
           operators \in [1..(n - 1) -> Operators] :
            /\ \A k \in 1..(n - 1) : ~(operators[k] = "Sub" /\ operands[k + 1] = "Digit")
            /\ Argument("tokens", Chain(operands, operators))

\* self.parse_expr() with the lexer at the first token
ParseExpr ==
    /\ op.kind = "tokens"
    /\ op' = [op EXCEPT !.kind = "parse_expr", !.ret = parse_expr(op.m, 1)]
    /\ UNCHANGED <<ast_vars, phase, diags, imports, infer_vars>>

NextExpr == ParseExpr

SpecExpr == InitExpr /\ [][NextExpr]_vars

RECURSIVE LeftNested(_, _)
\* The tree ((e1 op1 e2) op2 e3) ... of n operands: the right operand of
\* every node is a leaf.
LeftNested(expr, n) ==
    IF n = 1
    THEN expr.tag # "BinaryExpr"
    ELSE /\ expr.tag = "BinaryExpr"
         /\ expr.b[1].tag # "BinaryExpr"
         /\ LeftNested(expr.a[1], n - 1)

\* C25: a chain of binary operators without parentheses, e1 op1 e2 op2 e3
\* ..., is consumed completely and parses to the left-nested BinaryExpr
\* nodes ((e1 op1 e2) op2 e3) ..., all operators at one precedence level.
C25_ChainLeftNested ==
    op.kind = "parse_expr" =>
        /\ op.ret.ok
        /\ op.ret.pos >= Len(op.m)
        /\ LeftNested(op.ret.expr[1], Len(op.m) \div 2)

MaxTail == 2

\* The tokens next_token returns that the parser looks at.
SourceTokens ==
    {"Module", "Function", "Identifier", "OParenth", "CParenth", "OCurly", "CCurly",
     "Let", "Return", "Assign", "Digit", "Semicolon", "Comma", "Colon", "Sub", "Add",
     "Hash", "OBracket", "CBracket"}

\* Where a file can break off or go wrong: at top level, in a module, in
\* an attribute list, a parameter list, a function body, an expression and
\* the arguments of a call.
Contexts ==
    { <<>>,
      <<"Module", "Identifier", "OCurly">>,
      <<"Hash", "OBracket">>,
      <<"Function", "Identifier", "OParenth">>,
      <<"Function", "Identifier", "OParenth", "CParenth", "OCurly">>,
      <<"Function", "Identifier", "OParenth", "CParenth", "OCurly",
        "Let", "Identifier", "Assign">>,
      <<"Function", "Identifier", "OParenth", "CParenth", "OCurly",
        "Let", "Identifier", "Assign", "Identifier", "OParenth">> }

\* A file: a context and up to MaxTail tokens after it.  A `-` before a
\* digit is part of the number, lexer.rs:325-353.
InitTokens ==
    \E context \in Contexts, n \in 0..MaxTail :
        \E tail \in [1..n -> SourceTokens] :
            /\ \A k \in 1..(n - 1) : ~(tail[k] = "Sub" /\ tail[k + 1] = "Digit")
            /\ Argument("file", [src |-> <<"main", ".ql">>, toks |-> context \o tail])

\* parser.parse(&src)
ParseTokens ==
    /\ op.kind = "file"
    /\ \E parsed \in { parse(op.m.src, op.m.toks) } :
            /\ op' = [op EXCEPT !.kind = "parse", !.ret = parsed]
            /\ diags' = diags \o [i \in 1..Len(parsed.reported) |->
                                     Diag(parsed.reported[i].kind, <<>>, <<>>, "parse")]
    /\ UNCHANGED <<ast_vars, phase, imports, infer_vars>>

NextTokens == ParseTokens

SpecTokens == InitTokens /\ [][NextTokens]_vars

\* C27: no source trips the assertion of consume or an unwrap of an absent
\* token: whatever tokens the lexer returns, every consume(expected) of the
\* parser is made at the expected token, also after a unary `-` followed by
\* `(` or `;`, and no token is unwrapped at the end of the input.
C27_NoInternalError ==
    op.kind = "parse" => op.ret.ret # "panic"

\* C28: parsing terminates on every finite input: each iteration of each
\* loop of the parser consumes a token or leaves the loop, and parse
\* reaches its end with Ok or ParseError.
C28_ParseTerminates ==
    op.kind = "parse" => op.ret.ret \in {"Ok", "ParseError"}

====
